---- MODULE Spec2Model ----
(***************************************************************************)
(* Dispute classification and resolution: the rule evaluation of           *)
(* src/src/classify.py, the duplicate detection that backs it, the         *)
(* resolution table of src/src/resolve.py and the two-step run of          *)
(* src/src/pipeline.py.                                                    *)
(*                                                                         *)
(* Conventions.                                                            *)
(*  - A cell of a table is a record tagged by the Python type it has after *)
(*    pandas read it: [str |-> "M1"] an identifier-like string,            *)
(*    [text |-> <<"a", "b">>] free text at character level,                *)
(*    [ts |-> <<h, m, s>>] a timestamp string by its clock fields,         *)
(*    [num |-> 1500] a number, [nan |-> TRUE] a missing cell (float NaN).  *)
(*  - Text is a sequence of one-character strings, so that Python's        *)
(*    substring test `kw in desc` and str.lower() are computed.            *)
(*  - A confidence is kept in hundredths: 100 is 1.0, 90 is 0.9.           *)
(*  - A call either returns a value or raises: [raised |-> "TypeError"].   *)
(***************************************************************************)
EXTENDS Integers, Sequences, FiniteSets, TLC

(***************************************************************************)
(* Keyword lists of the four rules, in source order.                       *)
(***************************************************************************)
(* Rule 1, classify.py 49-64 *)
duplicate_keywords == <<
    (* charged twice *)
    <<"c", "h", "a", "r", "g", "e", "d", " ", "t", "w", "i", "c", "e">>,
    (* duplicate charge *)
    <<"d", "u", "p", "l", "i", "c", "a", "t", "e", " ", "c", "h", "a", "r", "g", "e">>,
    (* double charge *)
    <<"d", "o", "u", "b", "l", "e", " ", "c", "h", "a", "r", "g", "e">>,
    (* two debit messages *)
    <<"t", "w", "o", " ", "d", "e", "b", "i", "t", " ", "m", "e", "s", "s", "a", "g", "e", "s">>,
    (* duplicate transfer *)
    <<"d", "u", "p", "l", "i", "c", "a", "t", "e", " ", "t", "r", "a", "n", "s", "f", "e", "r">>,
    (* same merchant within minutes *)
    <<"s", "a", "m", "e", " ", "m", "e", "r", "c", "h", "a", "n", "t", " ", "w", "i", "t", "h", "i", "n", " ", "m", "i", "n", "u", "t", "e", "s">>,
    (* charged twice at *)
    <<"c", "h", "a", "r", "g", "e", "d", " ", "t", "w", "i", "c", "e", " ", "a", "t">>,
    (* duplicate upi *)
    <<"d", "u", "p", "l", "i", "c", "a", "t", "e", " ", "u", "p", "i">>,
    (* same vpa *)
    <<"s", "a", "m", "e", " ", "v", "p", "a">>,
    (* minutes apart *)
    <<"m", "i", "n", "u", "t", "e", "s", " ", "a", "p", "a", "r", "t">>,
    (* two upi debit *)
    <<"t", "w", "o", " ", "u", "p", "i", " ", "d", "e", "b", "i", "t">>,
    (* got two *)
    <<"g", "o", "t", " ", "t", "w", "o">>,
    (* same payment *)
    <<"s", "a", "m", "e", " ", "p", "a", "y", "m", "e", "n", "t">>,
    (* duplicate payment *)
    <<"d", "u", "p", "l", "i", "c", "a", "t", "e", " ", "p", "a", "y", "m", "e", "n", "t">>
>>

(* Rule 2, classify.py 91-97 *)
failed_keywords == <<
    (* failed *)
    <<"f", "a", "i", "l", "e", "d">>,
    (* not refunded *)
    <<"n", "o", "t", " ", "r", "e", "f", "u", "n", "d", "e", "d">>,
    (* not received *)
    <<"n", "o", "t", " ", "r", "e", "c", "e", "i", "v", "e", "d">>,
    (* payment stuck *)
    <<"p", "a", "y", "m", "e", "n", "t", " ", "s", "t", "u", "c", "k">>,
    (* pending *)
    <<"p", "e", "n", "d", "i", "n", "g">>
>>

(* Rule 3, classify.py 113-122 *)
fraud_keywords == <<
    (* fraud *)
    <<"f", "r", "a", "u", "d">>,
    (* unauthorized *)
    <<"u", "n", "a", "u", "t", "h", "o", "r", "i", "z", "e", "d">>,
    (* not made this payment *)
    <<"n", "o", "t", " ", "m", "a", "d", "e", " ", "t", "h", "i", "s", " ", "p", "a", "y", "m", "e", "n", "t">>,
    (* scam *)
    <<"s", "c", "a", "m">>,
    (* did not make *)
    <<"d", "i", "d", " ", "n", "o", "t", " ", "m", "a", "k", "e">>,
    (* didn't authorize *)
    <<"d", "i", "d", "n", "'", "t", " ", "a", "u", "t", "h", "o", "r", "i", "z", "e">>,
    (* suspicious *)
    <<"s", "u", "s", "p", "i", "c", "i", "o", "u", "s">>,
    (* don't recognize *)
    <<"d", "o", "n", "'", "t", " ", "r", "e", "c", "o", "g", "n", "i", "z", "e">>
>>

(* Rule 4, classify.py 137-144 *)
refund_keywords == <<
    (* waiting for refund *)
    <<"w", "a", "i", "t", "i", "n", "g", " ", "f", "o", "r", " ", "r", "e", "f", "u", "n", "d">>,
    (* refund pending *)
    <<"r", "e", "f", "u", "n", "d", " ", "p", "e", "n", "d", "i", "n", "g">>,
    (* still not refunded *)
    <<"s", "t", "i", "l", "l", " ", "n", "o", "t", " ", "r", "e", "f", "u", "n", "d", "e", "d">>,
    (* refund not received *)
    <<"r", "e", "f", "u", "n", "d", " ", "n", "o", "t", " ", "r", "e", "c", "e", "i", "v", "e", "d">>,
    (* still waiting *)
    <<"s", "t", "i", "l", "l", " ", "w", "a", "i", "t", "i", "n", "g">>,
    (* refund for canceled *)
    <<"r", "e", "f", "u", "n", "d", " ", "f", "o", "r", " ", "c", "a", "n", "c", "e", "l", "e", "d">>
>>

(* Sample description texts. *)
(* I was charged twice *)
d_charged_twice == <<"I", " ", "w", "a", "s", " ", "c", "h", "a", "r", "g", "e", "d", " ", "t", "w", "i", "c", "e">>
(* charged twice, this is fraud *)
d_dup_and_fraud == <<"c", "h", "a", "r", "g", "e", "d", " ", "t", "w", "i", "c", "e", ",", " ", "t", "h", "i", "s", " ", "i", "s", " ", "f", "r", "a", "u", "d">>
(* Fraud? got two debits *)
d_fraud_then_dup == <<"F", "r", "a", "u", "d", "?", " ", "g", "o", "t", " ", "t", "w", "o", " ", "d", "e", "b", "i", "t", "s">>
(* failed, then a duplicate charge *)
d_failed_then_dup == <<"f", "a", "i", "l", "e", "d", ",", " ", "t", "h", "e", "n", " ", "a", " ", "d", "u", "p", "l", "i", "c", "a", "t", "e", " ", "c", "h", "a", "r", "g", "e">>
(* payment failed *)
d_payment_failed == <<"p", "a", "y", "m", "e", "n", "t", " ", "f", "a", "i", "l", "e", "d">>
(* payment stuck, looks suspicious *)
d_failed_and_fraud == <<"p", "a", "y", "m", "e", "n", "t", " ", "s", "t", "u", "c", "k", ",", " ", "l", "o", "o", "k", "s", " ", "s", "u", "s", "p", "i", "c", "i", "o", "u", "s">>
(* I did not make this, unauthorized *)
d_fraud == <<"I", " ", "d", "i", "d", " ", "n", "o", "t", " ", "m", "a", "k", "e", " ", "t", "h", "i", "s", ",", " ", "u", "n", "a", "u", "t", "h", "o", "r", "i", "z", "e", "d">>
(* FRAUD ALERT *)
d_fraud_upper == <<"F", "R", "A", "U", "D", " ", "A", "L", "E", "R", "T">>
(* scam and still waiting *)
d_fraud_and_refund == <<"s", "c", "a", "m", " ", "a", "n", "d", " ", "s", "t", "i", "l", "l", " ", "w", "a", "i", "t", "i", "n", "g">>
(* waiting for refund *)
d_waiting_refund == <<"w", "a", "i", "t", "i", "n", "g", " ", "f", "o", "r", " ", "r", "e", "f", "u", "n", "d">>
(* Refund for canceled order *)
d_refund_canceled == <<"R", "e", "f", "u", "n", "d", " ", "f", "o", "r", " ", "c", "a", "n", "c", "e", "l", "e", "d", " ", "o", "r", "d", "e", "r">>
(* refund pending *)
d_refund_pending == <<"r", "e", "f", "u", "n", "d", " ", "p", "e", "n", "d", "i", "n", "g">>
(* still not refunded *)
d_still_not_refunded == <<"s", "t", "i", "l", "l", " ", "n", "o", "t", " ", "r", "e", "f", "u", "n", "d", "e", "d">>
(* refund not received *)
d_refund_not_received == <<"r", "e", "f", "u", "n", "d", " ", "n", "o", "t", " ", "r", "e", "c", "e", "i", "v", "e", "d">>
(* where is my order *)
d_others == <<"w", "h", "e", "r", "e", " ", "i", "s", " ", "m", "y", " ", "o", "r", "d", "e", "r">>
(* charged twice, refund pending *)
d_dup_and_refund_pending == <<"c", "h", "a", "r", "g", "e", "d", " ", "t", "w", "i", "c", "e", ",", " ", "r", "e", "f", "u", "n", "d", " ", "p", "e", "n", "d", "i", "n", "g">>
(* charged twic, fraid *)
d_near_miss == <<"c", "h", "a", "r", "g", "e", "d", " ", "t", "w", "i", "c", ",", " ", "f", "r", "a", "i", "d">>

(***************************************************************************)
(* Cells and Python's operations on them.                                  *)
(***************************************************************************)
Str(s) == [str |-> s]
Text(cs) == [text |-> cs]
Ts(h, m, s) == [ts |-> <<h, m, s>>]
Num(n) == [num |-> n]
NaN == [nan |-> TRUE]
None == [none |-> TRUE]
DataFrame(rows) == [rows |-> rows]
Raise(exc) == [raised |-> exc]

IsNone(x) == DOMAIN x = {"none"}
IsNaN(c) == DOMAIN c = {"nan"}
IsNum(c) == DOMAIN c = {"num"}
IsStr(c) == DOMAIN c \in {{"str"}, {"text"}, {"ts"}}
Raised(r) == DOMAIN r = {"raised"}

(* bool(c): an empty string and the number 0 are false, NaN is true *)
Truthy(c) ==
    IF DOMAIN c = {"str"} THEN c.str # ""
    ELSE IF DOMAIN c = {"text"} THEN c.text # <<>>
    ELSE IF DOMAIN c = {"ts"} THEN c.ts # <<>>
    ELSE IF DOMAIN c = {"num"} THEN c.num # 0
    ELSE TRUE

(* a == b on cells: NaN equals nothing, itself included *)
PyEq(a, b) == a = b /\ ~IsNaN(a)

UpperCase == <<"A", "B", "C", "D", "E", "F", "G", "H", "I", "J", "K", "L", "M",
               "N", "O", "P", "Q", "R", "S", "T", "U", "V", "W", "X", "Y", "Z">>
LowerCase == <<"a", "b", "c", "d", "e", "f", "g", "h", "i", "j", "k", "l", "m",
               "n", "o", "p", "q", "r", "s", "t", "u", "v", "w", "x", "y", "z">>

LowerChar(c) ==
    IF \E i \in DOMAIN UpperCase : UpperCase[i] = c
    THEN LowerCase[CHOOSE i \in DOMAIN UpperCase : UpperCase[i] = c]
    ELSE c

(* str.lower() of a text *)
RECURSIVE Lower(_)
Lower(cs) == IF cs = <<>> THEN <<>> ELSE <<LowerChar(Head(cs))>> \o Lower(Tail(cs))

(* Python's `kw in desc` on texts: kw is a contiguous part of desc *)
Contains(kw, desc) ==
    \E i \in 1..(Len(desc) - Len(kw) + 1) : SubSeq(desc, i, i + Len(kw) - 1) = kw

(* `for kw in keywords: if kw in desc:` -- the index of the first keyword  *)
(* of the list, from position i on, that desc contains; 0 when the loop    *)
(* ends without a hit.                                                     *)
RECURSIVE FirstKeywordFrom(_, _, _)
FirstKeywordFrom(keywords, desc, i) ==
    IF i > Len(keywords) THEN 0
    ELSE IF Contains(keywords[i], desc) THEN i
    ELSE FirstKeywordFrom(keywords, desc, i + 1)

FirstKeyword(keywords, desc) == FirstKeywordFrom(keywords, desc, 1)

(* str.upper() and str.lower() of a status string *)
Upper(s) ==
    CASE s \in {"failed", "Failed"} -> "FAILED"
      [] s \in {"cancelled", "Cancelled"} -> "CANCELLED"
      [] s \in {"pending", "Pending"} -> "PENDING"
      [] s \in {"completed", "Completed"} -> "COMPLETED"
      [] OTHER -> s

StatusLower(s) ==
    CASE s \in {"FAILED", "Failed"} -> "failed"
      [] s \in {"CANCELLED", "Cancelled"} -> "cancelled"
      [] s \in {"PENDING", "Pending"} -> "pending"
      [] s \in {"COMPLETED", "Completed"} -> "completed"
      [] OTHER -> s

(***************************************************************************)
(* pd.to_datetime on a timestamp cell: a well-formed clock string parses   *)
(* to its seconds, a missing or empty one to NaT, anything else raises.    *)
(***************************************************************************)
WellFormed(c) ==
    /\ DOMAIN c = {"ts"}
    /\ Len(c.ts) = 3
    /\ c.ts[1] \in 0..23 /\ c.ts[2] \in 0..59 /\ c.ts[3] \in 0..59

NaT == [nat |-> TRUE]

to_datetime(c) ==
    IF WellFormed(c) THEN [seconds |-> c.ts[1] * 3600 + c.ts[2] * 60 + c.ts[3]]
    ELSE IF IsNaN(c) \/ ~Truthy(c) THEN NaT
    ELSE Raise("ValueError")

Abs(n) == IF n < 0 THEN -n ELSE n

(* WithinSeconds with one window for every caller: the classifier's 300    *)
(* seconds, whatever window is asked for                                   *)
WithinSeconds_OneWindow(a, b, window) ==
    /\ a # NaT /\ b # NaT
    /\ Abs(a.seconds - b.seconds) <= 300

(* abs((a - b).total_seconds()) <= window; a comparison with NaT is false *)
WithinSeconds(a, b, window) ==
    /\ a # NaT /\ b # NaT
    /\ Abs(a.seconds - b.seconds) <= window

(* amount > limit: a string against a number raises TypeError, NaN        *)
(* compares false                                                          *)
Comparable(amount) == IsNum(amount) \/ IsNaN(amount)

GreaterThan(amount, limit) == IsNum(amount) /\ amount.num > limit

(***************************************************************************)
(* classify.py                                                             *)
(***************************************************************************)
DuplicateWindow == 300

(* transaction_data[transaction_data["txn_id"] == txn_id] *)
RowsWithId(rows, txn_id) ==
    LET Match(r) == PyEq(r.txn_id, txn_id)
    IN  SelectSeq(rows, Match)

(* find_duplicate_transactions that takes a missing merchant, amount or    *)
(* timestamp of txn for "any": the test on a missing field is skipped     *)
find_duplicate_transactions_MissingMatchesAny(txn_details, all_transactions) ==
    LET merchant == txn_details.merchant
        amount == txn_details.amount
        timestamp_str == txn_details.timestamp
        txn_id == txn_details.txn_id
        txn_time == to_datetime(timestamp_str)
        Candidate(r) ==
            /\ ~Truthy(merchant) \/ PyEq(r.merchant, merchant)
            /\ ~Truthy(amount) \/ PyEq(r.amount, amount)
            /\ ~PyEq(r.txn_id, txn_id)
        potential_dups == SelectSeq(all_transactions.rows, Candidate)
        Near(r) ==
            \/ txn_time = NaT
            \/ WithinSeconds(txn_time, to_datetime(r.timestamp), DuplicateWindow)
    IN  IF IsNone(all_transactions) \/ Raised(txn_time) THEN <<>>
        ELSE IF \E i \in DOMAIN potential_dups :
                    Raised(to_datetime(potential_dups[i].timestamp))
             THEN <<>>
        ELSE SelectSeq(potential_dups, Near)

(* find_duplicate_transactions without the merchant test: any transaction  *)
(* of the same amount is a candidate                                       *)
find_duplicate_transactions_AnyMerchant(txn_details, all_transactions) ==
    LET merchant == txn_details.merchant
        amount == txn_details.amount
        timestamp_str == txn_details.timestamp
        txn_id == txn_details.txn_id
        txn_time == to_datetime(timestamp_str)
        Candidate(r) ==
            /\ PyEq(r.amount, amount)
            /\ ~PyEq(r.txn_id, txn_id)
        potential_dups == SelectSeq(all_transactions.rows, Candidate)
        Near(r) == WithinSeconds(txn_time, to_datetime(r.timestamp), DuplicateWindow)
    IN  IF ~(Truthy(merchant) /\ Truthy(amount) /\ Truthy(timestamp_str)) THEN <<>>
        ELSE IF IsNone(all_transactions) \/ Raised(txn_time) THEN <<>>
        ELSE IF \E i \in DOMAIN potential_dups :
                    Raised(to_datetime(potential_dups[i].timestamp))
             THEN <<>>
        ELSE SelectSeq(potential_dups, Near)

(* lines 173-206 *)
find_duplicate_transactions(txn_details, all_transactions) ==
    LET merchant == txn_details.merchant
        amount == txn_details.amount
        timestamp_str == txn_details.timestamp
        txn_id == txn_details.txn_id
        txn_time == to_datetime(timestamp_str)
        Candidate(r) ==
            /\ PyEq(r.merchant, merchant)
            /\ PyEq(r.amount, amount)
            /\ ~PyEq(r.txn_id, txn_id)
        potential_dups == SelectSeq(all_transactions.rows, Candidate)
        Near(r) == WithinSeconds(txn_time, to_datetime(r.timestamp), DuplicateWindow)
    IN  IF ~(Truthy(merchant) /\ Truthy(amount) /\ Truthy(timestamp_str)) THEN <<>>
        ELSE IF IsNone(all_transactions) \/ Raised(txn_time) THEN <<>>
        ELSE IF \E i \in DOMAIN potential_dups :
                    Raised(to_datetime(potential_dups[i].timestamp))
             THEN <<>>
        ELSE SelectSeq(potential_dups, Near)

Explain(text, kw, note) == [text |-> text, kw |-> kw, note |-> note]
NoNote == [none |-> TRUE]
Result(category, confidence, explanation) ==
    [category |-> category, confidence |-> confidence, explanation |-> explanation]

(* DuplicateRule that keeps a base confidence of 0.9 and reaches 1.0 only  *)
(* when the table corroborates the duplicate                               *)
DuplicateRule_BaseNine(kw, txn_details, all_transactions) ==
    LET merchant == txn_details.merchant
        txn_amount == txn_details.amount
        duplicates == find_duplicate_transactions(txn_details, all_transactions)
        corroborated ==
            /\ ~IsNone(txn_details) /\ ~IsNone(all_transactions)
            /\ Truthy(merchant) /\ Truthy(txn_amount)
            /\ Len(duplicates) > 0
    IN  IF corroborated
        THEN Result("DUPLICATE_CHARGE", 100,
                    Explain("Keyword match", kw, [found |-> Len(duplicates)]))
        ELSE Result("DUPLICATE_CHARGE", 90, Explain("Keyword match", kw, NoNote))

(* Rule 1, lines 66-88 *)
DuplicateRule(kw, txn_details, all_transactions) ==
    LET merchant == txn_details.merchant
        txn_amount == txn_details.amount
        duplicates == find_duplicate_transactions(txn_details, all_transactions)
        corroborated ==
            /\ ~IsNone(txn_details) /\ ~IsNone(all_transactions)
            /\ Truthy(merchant) /\ Truthy(txn_amount)
            /\ Len(duplicates) > 0
    IN  Result("DUPLICATE_CHARGE", 100,
               Explain("Keyword match", kw,
                       IF corroborated THEN [found |-> Len(duplicates)] ELSE NoNote))

(* FailedRule that takes a transaction it cannot find for a failed one *)
FailedRule_AbsentMeansFailed(kw, txn_details) ==
    IF IsNone(txn_details)
    THEN Result("FAILED_TRANSACTION", 100,
                Explain("Keyword match", kw, [status |-> "FAILED"]))
    ELSE IF DOMAIN txn_details.status # {"str"} THEN Raise("AttributeError")
    ELSE LET txn_status == Upper(txn_details.status.str)
         IN  IF txn_status \in {"FAILED", "CANCELLED"}
             THEN Result("FAILED_TRANSACTION", 100,
                         Explain("Keyword match", kw, [status |-> txn_status]))
             ELSE Result("FAILED_TRANSACTION", 90, Explain("Keyword match", kw, NoNote))

(* FailedRule that raises the confidence for a failed transaction only,    *)
(* not for a cancelled one                                                 *)
FailedRule_FailedOnly(kw, txn_details) ==
    IF IsNone(txn_details)
    THEN Result("FAILED_TRANSACTION", 90, Explain("Keyword match", kw, NoNote))
    ELSE IF DOMAIN txn_details.status # {"str"} THEN Raise("AttributeError")
    ELSE LET txn_status == Upper(txn_details.status.str)
         IN  IF txn_status = "FAILED"
             THEN Result("FAILED_TRANSACTION", 100,
                         Explain("Keyword match", kw, [status |-> txn_status]))
             ELSE Result("FAILED_TRANSACTION", 90, Explain("Keyword match", kw, NoNote))

(* FailedRule with the status bump added to the base confidence instead of *)
(* replacing it                                                            *)
FailedRule_BumpAdded(kw, txn_details) ==
    IF IsNone(txn_details)
    THEN Result("FAILED_TRANSACTION", 90, Explain("Keyword match", kw, NoNote))
    ELSE IF DOMAIN txn_details.status # {"str"} THEN Raise("AttributeError")
    ELSE LET txn_status == Upper(txn_details.status.str)
         IN  IF txn_status \in {"FAILED", "CANCELLED"}
             THEN Result("FAILED_TRANSACTION", 90 + 20,
                         Explain("Keyword match", kw, [status |-> txn_status]))
             ELSE Result("FAILED_TRANSACTION", 90, Explain("Keyword match", kw, NoNote))

(* Rule 2, lines 98-110 *)
FailedRule(kw, txn_details) ==
    IF IsNone(txn_details)
    THEN Result("FAILED_TRANSACTION", 90, Explain("Keyword match", kw, NoNote))
    ELSE IF DOMAIN txn_details.status # {"str"} THEN Raise("AttributeError")
    ELSE LET txn_status == Upper(txn_details.status.str)
         IN  IF txn_status \in {"FAILED", "CANCELLED"}
             THEN Result("FAILED_TRANSACTION", 100,
                         Explain("Keyword match", kw, [status |-> txn_status]))
             ELSE Result("FAILED_TRANSACTION", 90, Explain("Keyword match", kw, NoNote))

(* FraudRule that notes the amount from 5000 on *)
FraudRule_NoteFromFiveThousand(kw, amount) ==
    IF ~Comparable(amount) THEN Raise("TypeError")
    ELSE IF IsNum(amount) /\ amount.num >= 5000
    THEN Result("FRAUD", 100, Explain("Keyword match", kw, [high_amount |-> amount]))
    ELSE Result("FRAUD", 100, Explain("Keyword match", kw, NoNote))

(* FraudRule that lets the amount decide the category: a fraud keyword     *)
(* with an amount up to 5000 falls through to OTHERS                       *)
FraudRule_AmountGated(kw, amount) ==
    IF ~Comparable(amount) THEN Raise("TypeError")
    ELSE IF GreaterThan(amount, 5000)
    THEN Result("FRAUD", 100, Explain("Keyword match", kw, [high_amount |-> amount]))
    ELSE Result("OTHERS", 50, Explain("No strong keyword match", <<>>, NoNote))

(* Rule 3, lines 124-134 *)
FraudRule(kw, amount) ==
    IF ~Comparable(amount) THEN Raise("TypeError")
    ELSE IF GreaterThan(amount, 5000)
    THEN Result("FRAUD", 100, Explain("Keyword match", kw, [high_amount |-> amount]))
    ELSE Result("FRAUD", 100, Explain("Keyword match", kw, NoNote))

(* RefundRule that raises the confidence for a failed transaction too, as  *)
(* the resolver's refund rule does                                         *)
RefundRule_FailedToo(kw, txn_details) ==
    IF IsNone(txn_details)
    THEN Result("REFUND_PENDING", 80, Explain("Keyword match", kw, NoNote))
    ELSE IF DOMAIN txn_details.status # {"str"} THEN Raise("AttributeError")
    ELSE LET txn_status == Upper(txn_details.status.str)
         IN  IF txn_status \in {"CANCELLED", "FAILED"}
             THEN Result("REFUND_PENDING", 100,
                         Explain("Keyword match", kw, [status |-> txn_status]))
             ELSE Result("REFUND_PENDING", 80, Explain("Keyword match", kw, NoNote))

(* Rule 4, lines 146-158 *)
RefundRule(kw, txn_details) ==
    IF IsNone(txn_details)
    THEN Result("REFUND_PENDING", 80, Explain("Keyword match", kw, NoNote))
    ELSE IF DOMAIN txn_details.status # {"str"} THEN Raise("AttributeError")
    ELSE LET txn_status == Upper(txn_details.status.str)
         IN  IF txn_status = "CANCELLED"
             THEN Result("REFUND_PENDING", 100,
                         Explain("Keyword match", kw, [status |-> txn_status]))
             ELSE Result("REFUND_PENDING", 80, Explain("Keyword match", kw, NoNote))

(* OthersRule that never adds the merchant and the channel *)
OthersRule_NoHints(txn_details) ==
    Result("OTHERS", 50, Explain("No strong keyword match", <<>>, NoNote))

(* Default, lines 160-170 *)
OthersRule(txn_details) ==
    IF IsNone(txn_details)
    THEN Result("OTHERS", 50, Explain("No strong keyword match", <<>>, NoNote))
    ELSE Result("OTHERS", 50,
                Explain("No strong keyword match", <<>>,
                        [merchant |-> txn_details.merchant,
                         channel |-> txn_details.channel]))

(* RuleFired with the refund loop placed before the failed loop *)
RuleFired_RefundBeforeFailed(dup, failed, fraud, refund) ==
    IF dup # 0 THEN 1
    ELSE IF refund # 0 THEN 4
    ELSE IF failed # 0 THEN 2
    ELSE IF fraud # 0 THEN 3
    ELSE 0

(* RuleFired with the fraud loop placed before the duplicate loop *)
RuleFired_FraudFirst(dup, failed, fraud, refund) ==
    IF fraud # 0 THEN 3
    ELSE IF dup # 0 THEN 1
    ELSE IF failed # 0 THEN 2
    ELSE IF refund # 0 THEN 4
    ELSE 0

(* The order of the four keyword loops (lines 66, 98, 124, 146): each      *)
(* returns as soon as one of its keywords is found, so the rule that       *)
(* decides is the first one with a hit; 0 when none has one.               *)
RuleFired(dup, failed, fraud, refund) ==
    IF dup # 0 THEN 1
    ELSE IF failed # 0 THEN 2
    ELSE IF fraud # 0 THEN 3
    ELSE IF refund # 0 THEN 4
    ELSE 0

classify_dispute_enhanced(dispute_row, transaction_data, all_transactions) ==
    LET description == dispute_row.description
        txn_id == dispute_row.txn_id
        amount == dispute_row.amount
        desc == IF DOMAIN description = {"text"} THEN Lower(description.text) ELSE <<>>
        txn_match ==
            IF ~IsNone(transaction_data) /\ Truthy(txn_id)
            THEN RowsWithId(transaction_data.rows, txn_id)
            ELSE <<>>
        txn_details == IF Len(txn_match) > 0 THEN txn_match[1] ELSE None
        dup == FirstKeyword(duplicate_keywords, desc)
        failed == FirstKeyword(failed_keywords, desc)
        fraud == FirstKeyword(fraud_keywords, desc)
        refund == FirstKeyword(refund_keywords, desc)
        rule == RuleFired(dup, failed, fraud, refund)
    IN  IF rule = 1
        THEN DuplicateRule(duplicate_keywords[dup], txn_details, all_transactions)
        ELSE IF rule = 2 THEN FailedRule(failed_keywords[failed], txn_details)
        ELSE IF rule = 3 THEN FraudRule(fraud_keywords[fraud], amount)
        ELSE IF rule = 4 THEN RefundRule(refund_keywords[refund], txn_details)
        ELSE OthersRule(txn_details)

(* Backward compatibility function, lines 210-216 *)
classify_dispute(description) ==
    classify_dispute_enhanced(
        [description |-> description, txn_id |-> Str(""), amount |-> Num(0)],
        None, None)

(* ClassifiedRow that never looks the transaction up for merchant and      *)
(* channel                                                                 *)
ClassifiedRow_NoLookup(row, transactions_df) ==
    LET result == classify_dispute_enhanced(row, transactions_df, transactions_df)
    IN  IF Raised(result) THEN result
        ELSE [dispute_id |-> row.dispute_id,
              txn_id |-> row.txn_id,
              amount |-> row.amount,
              merchant |-> Str(""),
              channel |-> Str(""),
              predicted_category |-> result.category,
              confidence |-> result.confidence,
              explanation |-> result.explanation]

(* lines 239-276: one record per row, in order; an exception raised for a  *)
(* row leaves the loop and the function.                                   *)
ClassifiedRow(row, transactions_df) ==
    LET txn_id == row.txn_id
        result == classify_dispute_enhanced(row, transactions_df, transactions_df)
        txn_match ==
            IF ~IsNone(transactions_df) /\ Truthy(txn_id)
            THEN RowsWithId(transactions_df.rows, txn_id)
            ELSE <<>>
    IN  IF Raised(result) THEN result
        ELSE [dispute_id |-> row.dispute_id,
              txn_id |-> txn_id,
              amount |-> row.amount,
              merchant |-> IF Len(txn_match) > 0 THEN txn_match[1].merchant ELSE Str(""),
              channel |-> IF Len(txn_match) > 0 THEN txn_match[1].channel ELSE Str(""),
              predicted_category |-> result.category,
              confidence |-> result.confidence,
              explanation |-> result.explanation]

classify_disputes(df, transactions_df) ==
    LET results == [i \in DOMAIN df.rows |-> ClassifiedRow(df.rows[i], transactions_df)]
    IN  IF \E i \in DOMAIN results : Raised(results[i])
        THEN results[CHOOSE i \in DOMAIN results :
                        /\ Raised(results[i])
                        /\ \A j \in 1..(i - 1) : ~Raised(results[j])]
        ELSE DataFrame(results)

(***************************************************************************)
(* resolve.py                                                              *)
(***************************************************************************)
time_window == 30

(* lines 55-62: the rows are visited in table order; each one's timestamp  *)
(* is parsed before it is compared.                                        *)
RECURSIVE ScanNearby(_, _, _, _)
ScanNearby(nearby_txns, ts, txn_id, window) ==
    IF nearby_txns = <<>> THEN [value |-> FALSE]
    ELSE LET row == Head(nearby_txns)
             other_ts == to_datetime(row.timestamp)
         IN  IF Raised(other_ts) THEN other_ts
             ELSE IF WithinSeconds(ts, other_ts, window) /\ ~PyEq(row.txn_id, txn_id)
             THEN [value |-> TRUE]
             ELSE ScanNearby(Tail(nearby_txns), ts, txn_id, window)

(* is_duplicate that looks for the same merchant, as the classifier does,  *)
(* instead of the same payer                                               *)
is_duplicate_SameMerchant(txn_id, transactions_df, window) ==
    LET found == RowsWithId(transactions_df.rows, txn_id)
        txn == found[1]
        merchant == txn.merchant
        amount == txn.amount
        ts == to_datetime(txn.timestamp)
        SameMerchantAmount(r) == PyEq(r.merchant, merchant) /\ PyEq(r.amount, amount)
        nearby_txns == SelectSeq(transactions_df.rows, SameMerchantAmount)
    IN  IF found = <<>> THEN [value |-> FALSE]
        ELSE IF Raised(ts) THEN ts
        ELSE ScanNearby(nearby_txns, ts, txn_id, window)

(* lines 37-62 *)
is_duplicate(txn_id, transactions_df, window) ==
    LET found == RowsWithId(transactions_df.rows, txn_id)
        txn == found[1]
        customer == txn.customer_id
        amount == txn.amount
        ts == to_datetime(txn.timestamp)
        SameCustomerAmount(r) == PyEq(r.customer_id, customer) /\ PyEq(r.amount, amount)
        nearby_txns == SelectSeq(transactions_df.rows, SameCustomerAmount)
    IN  IF found = <<>> THEN [value |-> FALSE]
        ELSE IF Raised(ts) THEN ts
        ELSE ScanNearby(nearby_txns, ts, txn_id, window)

Resolution(dispute_id, action, justification) ==
    [dispute_id |-> dispute_id, suggested_action |-> action,
     justification |-> justification]

(* ResolveDuplicate that takes the classifier's word: a duplicate charge   *)
(* with a transaction id is refunded without looking at the table          *)
ResolveDuplicate_TrustsClassifier(dispute_id, txn_id, transactions_df) ==
    IF Truthy(txn_id)
    THEN Resolution(dispute_id, "Auto-refund",
                    <<"Duplicate transaction confirmed in system.">>)
    ELSE Resolution(dispute_id, "Manual review",
                    <<"Potential duplicate but not confirmed in system.">>)

(* ResolveDuplicate that confirms a duplicate within the classifier's      *)
(* window                                                                  *)
ResolveDuplicate_SharedWindow(dispute_id, txn_id, transactions_df) ==
    LET dup == IF Truthy(txn_id)
               THEN is_duplicate(txn_id, transactions_df, DuplicateWindow)
               ELSE [value |-> FALSE]
    IN  IF Raised(dup) THEN dup
        ELSE IF dup.value
        THEN Resolution(dispute_id, "Auto-refund",
                        <<"Duplicate transaction confirmed in system.">>)
        ELSE Resolution(dispute_id, "Manual review",
                        <<"Potential duplicate but not confirmed in system.">>)

(* Rule 1, lines 78-84 *)
ResolveDuplicate(dispute_id, txn_id, transactions_df) ==
    LET dup == IF Truthy(txn_id)
               THEN is_duplicate(txn_id, transactions_df, time_window)
               ELSE [value |-> FALSE]
    IN  IF Raised(dup) THEN dup
        ELSE IF dup.value
        THEN Resolution(dispute_id, "Auto-refund",
                        <<"Duplicate transaction confirmed in system.">>)
        ELSE Resolution(dispute_id, "Manual review",
                        <<"Potential duplicate but not confirmed in system.">>)

(* ResolveFailed that upper-cases the status before comparing it, as the   *)
(* classifier does                                                         *)
ResolveFailed_CaseBlind(dispute_id, txn_id, transactions_df) ==
    LET found == RowsWithId(transactions_df.rows, txn_id)
        status == found[1].status
        upper == IF IsStr(status) THEN Str(Upper(status.str)) ELSE status
    IN  IF found = <<>>
        THEN Resolution(dispute_id, "Ask for more info",
                        <<"Transaction not found in system.">>)
        ELSE IF upper \in {Str("FAILED"), Str("CANCELLED")}
        THEN Resolution(dispute_id, "Auto-refund",
                        <<"Transaction ", StatusLower(upper.str),
                          " in records; refund applicable.">>)
        ELSE IF upper = Str("PENDING")
        THEN Resolution(dispute_id, "Manual review",
                        <<"Transaction pending; needs manual verification.">>)
        ELSE Resolution(dispute_id, "Ask for more info",
                        <<"Transaction successful in records; needs clarification.">>)

(* ResolveFailed that answers an unknown transaction as the refund rule    *)
(* does, with a manual review                                              *)
ResolveFailed_NotFoundReviewed(dispute_id, txn_id, transactions_df) ==
    LET found == RowsWithId(transactions_df.rows, txn_id)
        status == found[1].status
    IN  IF found = <<>>
        THEN Resolution(dispute_id, "Manual review",
                        <<"Transaction not found in system.">>)
        ELSE IF status \in {Str("FAILED"), Str("CANCELLED")}
        THEN Resolution(dispute_id, "Auto-refund",
                        <<"Transaction ", StatusLower(status.str),
                          " in records; refund applicable.">>)
        ELSE IF status = Str("PENDING")
        THEN Resolution(dispute_id, "Manual review",
                        <<"Transaction pending; needs manual verification.">>)
        ELSE Resolution(dispute_id, "Ask for more info",
                        <<"Transaction successful in records; needs clarification.">>)

(* Rule 2, lines 87-107 *)
ResolveFailed(dispute_id, txn_id, transactions_df) ==
    LET found == RowsWithId(transactions_df.rows, txn_id)
        status == found[1].status
    IN  IF found = <<>>
        THEN Resolution(dispute_id, "Ask for more info",
                        <<"Transaction not found in system.">>)
        ELSE IF status \in {Str("FAILED"), Str("CANCELLED")}
        THEN Resolution(dispute_id, "Auto-refund",
                        <<"Transaction ", StatusLower(status.str),
                          " in records; refund applicable.">>)
        ELSE IF status = Str("PENDING")
        THEN Resolution(dispute_id, "Manual review",
                        <<"Transaction pending; needs manual verification.">>)
        ELSE Resolution(dispute_id, "Ask for more info",
                        <<"Transaction successful in records; needs clarification.">>)

(* ResolveFraud with the band limits included in the upper band *)
ResolveFraud_InclusiveBands(dispute_id, amount) ==
    IF ~Comparable(amount) THEN Raise("TypeError")
    ELSE IF IsNum(amount) /\ amount.num >= 5000
    THEN Resolution(dispute_id, "Escalate to bank",
                    <<"High-value fraud dispute requires bank escalation.">>)
    ELSE IF IsNum(amount) /\ amount.num >= 1000
    THEN Resolution(dispute_id, "Mark as potential fraud",
                    <<"Medium-value suspicious activity detected.">>)
    ELSE Resolution(dispute_id, "Manual review",
                    <<"Low-value fraud claim needs verification.">>)

(* Rule 3, lines 110-119 *)
ResolveFraud(dispute_id, amount) ==
    IF ~Comparable(amount) THEN Raise("TypeError")
    ELSE IF GreaterThan(amount, 5000)
    THEN Resolution(dispute_id, "Escalate to bank",
                    <<"High-value fraud dispute requires bank escalation.">>)
    ELSE IF GreaterThan(amount, 1000)
    THEN Resolution(dispute_id, "Mark as potential fraud",
                    <<"Medium-value suspicious activity detected.">>)
    ELSE Resolution(dispute_id, "Manual review",
                    <<"Low-value fraud claim needs verification.">>)

(* ResolveRefund that refunds a cancelled transaction only *)
ResolveRefund_CancelledOnly(dispute_id, txn_id, transactions_df) ==
    LET found == RowsWithId(transactions_df.rows, txn_id)
        status == found[1].status
    IN  IF found = <<>>
        THEN Resolution(dispute_id, "Manual review",
                        <<"Transaction not found; manual investigation needed.">>)
        ELSE IF status = Str("CANCELLED")
        THEN Resolution(dispute_id, "Auto-refund",
                        <<"Transaction cancelled/failed; refund overdue.">>)
        ELSE Resolution(dispute_id, "Manual review",
                        <<"Refund process needs manual verification.">>)

(* Rule 4, lines 122-135 *)
ResolveRefund(dispute_id, txn_id, transactions_df) ==
    LET found == RowsWithId(transactions_df.rows, txn_id)
        status == found[1].status
    IN  IF found = <<>>
        THEN Resolution(dispute_id, "Manual review",
                        <<"Transaction not found; manual investigation needed.">>)
        ELSE IF status \in {Str("CANCELLED"), Str("FAILED")}
        THEN Resolution(dispute_id, "Auto-refund",
                        <<"Transaction cancelled/failed; refund overdue.">>)
        ELSE Resolution(dispute_id, "Manual review",
                        <<"Refund process needs manual verification.">>)

(* suggest_resolution whose default branch sets the action and leaves the  *)
(* justification empty                                                     *)
suggest_resolution_BareDefault(row, transactions_df) ==
    LET category == row.predicted_category
        dispute_id == row.dispute_id
        txn_id == row.txn_id
        amount == row.amount
    IN  IF category = "DUPLICATE_CHARGE"
        THEN ResolveDuplicate(dispute_id, txn_id, transactions_df)
        ELSE IF category = "FAILED_TRANSACTION"
        THEN ResolveFailed(dispute_id, txn_id, transactions_df)
        ELSE IF category = "FRAUD" THEN ResolveFraud(dispute_id, amount)
        ELSE IF category = "REFUND_PENDING"
        THEN ResolveRefund(dispute_id, txn_id, transactions_df)
        ELSE IF category = "OTHERS"
        THEN Resolution(dispute_id, "Ask for more info",
                        <<"Dispute unclear, requires customer clarification.">>)
        ELSE Resolution(dispute_id, "Ask for more info", <<>>)

(* lines 68-146 *)
suggest_resolution(row, transactions_df) ==
    LET category == row.predicted_category
        dispute_id == row.dispute_id
        txn_id == row.txn_id
        amount == row.amount
    IN  IF category = "DUPLICATE_CHARGE"
        THEN ResolveDuplicate(dispute_id, txn_id, transactions_df)
        ELSE IF category = "FAILED_TRANSACTION"
        THEN ResolveFailed(dispute_id, txn_id, transactions_df)
        ELSE IF category = "FRAUD" THEN ResolveFraud(dispute_id, amount)
        ELSE IF category = "REFUND_PENDING"
        THEN ResolveRefund(dispute_id, txn_id, transactions_df)
        ELSE IF category = "OTHERS"
        THEN Resolution(dispute_id, "Ask for more info",
                        <<"Dispute unclear, requires customer clarification.">>)
        ELSE Resolution(dispute_id, "Ask for more info", <<"No strong rule applied.">>)

(* generate_resolutions that emits nothing for a dispute classified OTHERS *)
generate_resolutions_SkipsOthers(disputes_df, transactions_df) ==
    LET Actionable(r) == r.predicted_category # "OTHERS"
        rows == SelectSeq(disputes_df.rows, Actionable)
        results == [i \in DOMAIN rows |-> suggest_resolution(rows[i], transactions_df)]
    IN  IF \E i \in DOMAIN results : Raised(results[i])
        THEN results[CHOOSE i \in DOMAIN results :
                        /\ Raised(results[i])
                        /\ \A j \in 1..(i - 1) : ~Raised(results[j])]
        ELSE DataFrame(results)

(* lines 152-157 *)
generate_resolutions(disputes_df, transactions_df) ==
    LET results == [i \in DOMAIN disputes_df.rows |->
                        suggest_resolution(disputes_df.rows[i], transactions_df)]
    IN  IF \E i \in DOMAIN results : Raised(results[i])
        THEN results[CHOOSE i \in DOMAIN results :
                        /\ Raised(results[i])
                        /\ \A j \in 1..(i - 1) : ~Raised(results[j])]
        ELSE DataFrame(results)

(***************************************************************************)
(* pipeline.py writes the classified disputes to a CSV file and reads them *)
(* back before resolving: pandas reads an empty field as NaN.              *)
(***************************************************************************)
ReadBack(c) ==
    IF DOMAIN c \in {{"str"}, {"text"}, {"ts"}} /\ ~Truthy(c) THEN NaN ELSE c

CsvRoundTrip(df) ==
    DataFrame([i \in DOMAIN df.rows |->
        [df.rows[i] EXCEPT !.dispute_id = ReadBack(@), !.txn_id = ReadBack(@),
                        !.amount = ReadBack(@), !.merchant = ReadBack(@),
                        !.channel = ReadBack(@)]])

(***************************************************************************)
(* Inputs.  The transaction table holds one row per transaction id, in id  *)
(* order; a dispute refers to a transaction by id.                         *)
(***************************************************************************)
MaxTxns == 2
MaxDupTxns == 3
MaxDisputes == 2

TxnIds == <<"T1", "T2", "T3", "T4", "T5">>

Txn(id, merchant, customer, amount, ts, status) ==
    [txn_id |-> Str(id), merchant |-> Str(merchant), customer_id |-> Str(customer),
     amount |-> Num(amount), timestamp |-> ts, status |-> Str(status),
     channel |-> Str("Mobile")]

Dispute(id, description, txn_id, amount) ==
    [dispute_id |-> Str(id), description |-> description, txn_id |-> txn_id,
     amount |-> amount]

(* every table of at most MaxTxns rows whose i-th row is drawn from Rows(i) *)
RECURSIVE TablesOf(_, _)
TablesOf(Rows(_), n) ==
    IF n = 0 THEN {<<>>}
    ELSE LET shorter == TablesOf(Rows, n - 1)
         IN  shorter \cup
             {Append(t, r) : t \in {s \in shorter : Len(s) = n - 1}, r \in Rows(n)}

Descriptions ==
    {Text(d) : d \in {d_charged_twice, d_dup_and_fraud, d_fraud_then_dup,
                      d_failed_then_dup, d_payment_failed, d_failed_and_fraud,
                      d_fraud, d_fraud_upper, d_fraud_and_refund, d_waiting_refund,
                      d_refund_canceled, d_refund_pending, d_still_not_refunded,
                      d_refund_not_received, d_dup_and_refund_pending, d_others,
                      d_near_miss, <<>>}}
    \cup {NaN}

Amounts == {Num(n) : n \in {0, 1000, 1001, 5000, 5001, 7000}} \cup {NaN}

Categories ==
    {"DUPLICATE_CHARGE", "FAILED_TRANSACTION", "FRAUD", "REFUND_PENDING", "OTHERS"}

Actions ==
    {"Auto-refund", "Manual review", "Escalate to bank", "Mark as potential fraud",
     "Ask for more info"}

(* Rule evaluation: the linked transaction T1 in every status, followed by *)
(* transactions of the same merchant, payer and amount.                    *)
RuleRows(i) ==
    IF i = 1
    THEN {Txn("T1", "M1", "C1", 1500, Ts(10, 0, 0), s) :
            s \in {"COMPLETED", "FAILED", "CANCELLED", "PENDING", "failed", "cancelled"}}
    ELSE {Txn(TxnIds[i], "M1", "C1", 1500, t, "COMPLETED") :
            t \in {Ts(10, 0, 30), Ts(10, 2, 0), Ts(10, 6, 40)}}

RuleDisputes ==
    {Dispute("D1", d, Str(id), a) :
        d \in Descriptions, id \in {"T1", "T9", ""}, a \in Amounts}

RuleClassified ==
    {[dispute_id |-> Str("D1"), txn_id |-> Str(id), amount |-> a,
      predicted_category |-> c] :
        id \in {"T1", "T9", ""}, a \in Amounts, c \in Categories \cup {"UNKNOWN"}}

(* Duplicate detection: T1 followed by transactions at every distance in  *)
(* time that the two windows tell apart, and by transactions that differ   *)
(* from T1 in merchant, in payer or in amount.                             *)
Clock ==
    {Ts(10, 0, 0), Ts(10, 0, 30), Ts(10, 0, 31), Ts(10, 2, 0), Ts(10, 5, 0),
     Ts(10, 5, 1), Ts(10, 6, 40)}

DupRows(i) ==
    IF i = 1
    THEN {Txn("T1", "M1", "C1", 1500, Ts(10, 0, 0), "COMPLETED")}
    ELSE {Txn(TxnIds[i], "M1", "C1", 1500, t, "COMPLETED") : t \in Clock}
         \cup {Txn(TxnIds[i], "M2", "C1", 1500, t, "COMPLETED") :
                    t \in {Ts(10, 0, 30), Ts(10, 5, 0)}}
         \cup {Txn(TxnIds[i], "M1", "C2", 1500, t, "COMPLETED") :
                    t \in {Ts(10, 0, 30), Ts(10, 5, 0)}}
         \cup {Txn(TxnIds[i], "M1", "C1", 700, Ts(10, 0, 30), "COMPLETED")}

DupTxnIds == {Str(TxnIds[i]) : i \in 1..MaxDupTxns} \cup {Str("T9"), Str(""), NaN}

DupDisputes ==
    {Dispute("D1", Text(d), id, Num(1500)) :
        d \in {d_charged_twice, d_dup_and_fraud}, id \in DupTxnIds}

DupClassified ==
    {[dispute_id |-> Str("D1"), txn_id |-> id, amount |-> Num(1500),
      predicted_category |-> "DUPLICATE_CHARGE"] : id \in DupTxnIds}

(* Batch runs: a disputes table of at most MaxDisputes rows, the i-th with *)
(* dispute id Di, against short tables.                                    *)
DisputeIds == <<"D1", "D2", "D3", "D4">>

BatchRows(i) ==
    IF i = 1
    THEN {Txn("T1", "M1", "C1", 1500, Ts(10, 0, 0), s) : s \in {"COMPLETED", "FAILED"}}
    ELSE {Txn(TxnIds[i], "M1", c, 1500, t, "COMPLETED") :
            c \in {"C1", "C2"}, t \in {Ts(10, 0, 30), Ts(10, 2, 0), Ts(10, 6, 40)}}

BatchDisputes(i) ==
    {Dispute(DisputeIds[i], Text(d_charged_twice), Str("T1"), Num(1500)),
     Dispute(DisputeIds[i], Text(d_payment_failed), Str("T9"), Num(500)),
     Dispute(DisputeIds[i], Text(d_payment_failed), Str("T1"), Num(1500)),
     Dispute(DisputeIds[i], Text(d_fraud), Str("T1"), Num(7000)),
     Dispute(DisputeIds[i], Text(d_waiting_refund), Str("T2"), Num(1500)),
     Dispute(DisputeIds[i], Text(d_others), Str(""), Num(0))}

(***************************************************************************)
(* State.                                                                  *)
(***************************************************************************)
VARIABLES
    transactions,   \* the rows of the transaction table
    disputes,       \* the rows of the disputes table of a batch run
    pc,             \* where the run stands
    call,           \* the call made, with its arguments
    ret,            \* what the call returned or raised
    ret2,           \* what the following call returned or raised
    classified,     \* the classified disputes of a batch run
    resolutions     \* the resolutions of a batch run

vars == <<transactions, disputes, pc, call, ret, ret2, classified, resolutions>>

Nothing == [nothing |-> TRUE]

Idle ==
    /\ pc = "start"
    /\ call = Nothing /\ ret = Nothing /\ ret2 = Nothing
    /\ classified = Nothing /\ resolutions = Nothing

Init ==
    /\ transactions \in TablesOf(RuleRows, MaxTxns)
    /\ disputes = <<>>
    /\ Idle

InitDup ==
    /\ transactions \in TablesOf(DupRows, MaxDupTxns)
    /\ disputes = <<>>
    /\ Idle

(* the table argument of a call: the table, or None when none is given *)
TableArg(with_table) == IF with_table THEN DataFrame(transactions) ELSE None

Outcome(r) == IF Raised(r) THEN "raised" ELSE "returned"

(* Classify that takes the linked row out of the table it was given *)
Classify_Consuming(dispute_row, with_table) ==
    /\ pc = "start"
    /\ call' = [op |-> "classify_dispute_enhanced", dispute_row |-> dispute_row,
                with_table |-> with_table]
    /\ ret' = classify_dispute_enhanced(dispute_row, TableArg(with_table),
                                        TableArg(with_table))
    /\ pc' = Outcome(ret')
    /\ transactions' =
            IF with_table
            THEN LET Other(r) == ~PyEq(r.txn_id, dispute_row.txn_id)
                 IN  SelectSeq(transactions, Other)
            ELSE transactions
    /\ UNCHANGED <<disputes, ret2, classified, resolutions>>

(* classify_dispute_enhanced(dispute_row, transactions, transactions) *)
Classify(dispute_row, with_table) ==
    /\ pc = "start"
    /\ call' = [op |-> "classify_dispute_enhanced", dispute_row |-> dispute_row,
                with_table |-> with_table]
    /\ ret' = classify_dispute_enhanced(dispute_row, TableArg(with_table),
                                        TableArg(with_table))
    /\ pc' = Outcome(ret')
    /\ UNCHANGED <<transactions, disputes, ret2, classified, resolutions>>

(* find_duplicate_transactions(row i of the table, the table) *)
FindDuplicates(i) ==
    /\ pc = "start"
    /\ call' = [op |-> "find_duplicate_transactions", txn_details |-> transactions[i]]
    /\ ret' = [duplicates |->
                find_duplicate_transactions(transactions[i], DataFrame(transactions))]
    /\ pc' = "returned"
    /\ UNCHANGED <<transactions, disputes, ret2, classified, resolutions>>

(* IsDuplicate that parses the timestamp column of the table it was given  *)
(* in place before scanning it                                             *)
IsDuplicate_ParsesInPlace(txn_id) ==
    /\ pc = "start"
    /\ call' = [op |-> "is_duplicate", txn_id |-> txn_id]
    /\ ret' = is_duplicate(txn_id, DataFrame(transactions), time_window)
    /\ pc' = Outcome(ret')
    /\ transactions' =
            IF RowsWithId(transactions, txn_id) = <<>> THEN transactions
            ELSE [i \in DOMAIN transactions |->
                    [transactions[i] EXCEPT !.timestamp = to_datetime(@)]]
    /\ UNCHANGED <<disputes, ret2, classified, resolutions>>

(* is_duplicate(txn_id, transactions) with the default window *)
IsDuplicate(txn_id) ==
    /\ pc = "start"
    /\ call' = [op |-> "is_duplicate", txn_id |-> txn_id]
    /\ ret' = is_duplicate(txn_id, DataFrame(transactions), time_window)
    /\ pc' = Outcome(ret')
    /\ UNCHANGED <<transactions, disputes, ret2, classified, resolutions>>

(* suggest_resolution(row, transactions) *)
SuggestResolution(row) ==
    /\ pc = "start"
    /\ call' = [op |-> "suggest_resolution", row |-> row]
    /\ ret' = suggest_resolution(row, DataFrame(transactions))
    /\ pc' = Outcome(ret')
    /\ UNCHANGED <<transactions, disputes, ret2, classified, resolutions>>

(* the same classifier call once more, on the table as it is now *)
ClassifyAgain ==
    /\ pc = "returned"
    /\ call.op = "classify_dispute_enhanced"
    /\ ret2' = classify_dispute_enhanced(call.dispute_row, TableArg(call.with_table),
                                         TableArg(call.with_table))
    /\ pc' = "repeated"
    /\ UNCHANGED <<transactions, disputes, call, ret, classified, resolutions>>

(* classify_dispute(description), lines 210-216: the same description with *)
(* no transaction id, amount 0 and no table                                *)
ClassifyPlain ==
    /\ pc = "returned"
    /\ call.op = "classify_dispute_enhanced"
    /\ ret2' = classify_dispute(call.dispute_row.description)
    /\ pc' = "plain"
    /\ UNCHANGED <<transactions, disputes, call, ret, classified, resolutions>>

(* the record classify_disputes builds from a classifier result (lines     *)
(* 263-274), handed to suggest_resolution                                  *)
ResolveClassified ==
    /\ pc = "returned"
    /\ call.op = "classify_dispute_enhanced"
    /\ ret2' = suggest_resolution(
                    [dispute_id |-> call.dispute_row.dispute_id,
                     txn_id |-> call.dispute_row.txn_id,
                     amount |-> call.dispute_row.amount,
                     predicted_category |-> ret.category],
                    DataFrame(transactions))
    /\ pc' = "resolved"
    /\ UNCHANGED <<transactions, disputes, call, ret, classified, resolutions>>

InitBatch ==
    /\ transactions \in TablesOf(BatchRows, MaxTxns)
    /\ disputes \in TablesOf(BatchDisputes, MaxDisputes)
    /\ Idle

(* pipeline.py main, step 1 (lines 34-36): the disputes are classified     *)
(* without the transaction table                                           *)
PipelineClassify ==
    /\ pc = "start"
    /\ call' = [op |-> "pipeline.main", with_table |-> FALSE]
    /\ classified' = classify_disputes(DataFrame(disputes), None)
    /\ pc' = IF Raised(classified') THEN "raised" ELSE "classified"
    /\ UNCHANGED <<transactions, disputes, ret, ret2, resolutions>>

(* classify.py main (lines 292-306) and app.py (lines 233-244): the table  *)
(* is passed when it was loaded                                            *)
ClassifyMain(with_table) ==
    /\ pc = "start"
    /\ call' = [op |-> "classify.main", with_table |-> with_table]
    /\ classified' = classify_disputes(DataFrame(disputes), TableArg(with_table))
    /\ pc' = IF Raised(classified') THEN "raised" ELSE "classified"
    /\ UNCHANGED <<transactions, disputes, ret, ret2, resolutions>>

(* pipeline.py main, step 2 (lines 42-46) and resolve.py main (lines       *)
(* 172-175): the classified disputes are read back from their file and     *)
(* resolved against the transaction table                                  *)
Resolve ==
    /\ pc = "classified"
    /\ resolutions' = generate_resolutions(CsvRoundTrip(classified), DataFrame(transactions))
    /\ pc' = IF Raised(resolutions') THEN "raised" ELSE "done"
    /\ UNCHANGED <<transactions, disputes, call, ret, ret2, classified>>

Start == pc = "start"

Next ==
    \/ Start /\ \E d \in RuleDisputes, with_table \in BOOLEAN : Classify(d, with_table)
    \/ Start /\ \E row \in RuleClassified : SuggestResolution(row)
    \/ ClassifyAgain
    \/ ClassifyPlain
    \/ ResolveClassified

NextDup ==
    \/ Start /\ \E d \in DupDisputes, with_table \in BOOLEAN : Classify(d, with_table)
    \/ Start /\ \E i \in DOMAIN transactions : FindDuplicates(i)
    \/ Start /\ \E id \in DupTxnIds : IsDuplicate(id)
    \/ Start /\ \E row \in DupClassified : SuggestResolution(row)
    \/ ClassifyAgain
    \/ ClassifyPlain
    \/ ResolveClassified

NextBatch ==
    \/ PipelineClassify
    \/ \E with_table \in BOOLEAN : ClassifyMain(with_table)
    \/ Resolve

Spec == Init /\ [][Next]_vars

SpecDup == InitDup /\ [][NextDup]_vars

SpecBatch == InitBatch /\ [][NextBatch]_vars

(***************************************************************************)
(* Properties.                                                             *)
(***************************************************************************)
ClassifierCalled == call # Nothing /\ call.op = "classify_dispute_enhanced"

(* the description as the classifier reads it: lower case, empty when it   *)
(* is not text                                                             *)
DescriptionRead ==
    IF DOMAIN call.dispute_row.description = {"text"}
    THEN Lower(call.dispute_row.description.text)
    ELSE <<>>

Hit(keywords, desc) == \E i \in DOMAIN keywords : Contains(keywords[i], desc)

(* C1: every call of classify_dispute_enhanced, whatever the description,  *)
(* the amount, the transaction id and the transaction table, returns a     *)
(* category among the five values and a confidence that is present and     *)
(* lies between 0 and 1 (0..100 hundredths).                               *)
C1_CategoryAndConfidenceInRange ==
    ClassifierCalled =>
        /\ pc # "raised"
        /\ ret.category \in Categories
        /\ "confidence" \in DOMAIN ret
        /\ ret.confidence \in 0..100

C1_Witness ==
    /\ ClassifierCalled
    /\ call.with_table
    /\ ret.category = "FAILED_TRANSACTION"
    /\ ret.confidence = 100

(* C2: the category returned is that of the first rule, in the order       *)
(* DUPLICATE_CHARGE, FAILED_TRANSACTION, FRAUD, REFUND_PENDING, that has a *)
(* keyword contained in the lower-cased description, and OTHERS when no    *)
(* rule has one; a description with a duplicate keyword and a fraud        *)
(* keyword is DUPLICATE_CHARGE.                                            *)
C2_FirstMatchWins ==
    (ClassifierCalled /\ pc = "returned") =>
        LET desc == DescriptionRead
        IN  /\ ret.category =
                    IF Hit(duplicate_keywords, desc) THEN "DUPLICATE_CHARGE"
                    ELSE IF Hit(failed_keywords, desc) THEN "FAILED_TRANSACTION"
                    ELSE IF Hit(fraud_keywords, desc) THEN "FRAUD"
                    ELSE IF Hit(refund_keywords, desc) THEN "REFUND_PENDING"
                    ELSE "OTHERS"
            /\ (Hit(duplicate_keywords, desc) /\ Hit(fraud_keywords, desc))
                    => ret.category = "DUPLICATE_CHARGE"

C2_Witness ==
    /\ ClassifierCalled
    /\ call.dispute_row.description = Text(d_fraud_then_dup)
    /\ Hit(duplicate_keywords, DescriptionRead)
    /\ Hit(fraud_keywords, DescriptionRead)
    /\ ret.category = "DUPLICATE_CHARGE"

(* C3: the category depends on the description alone: a call with any      *)
(* amount, transaction id and table returns the category that the same     *)
(* description gets with no transaction id, amount 0 and no table; only    *)
(* the confidence and the explanation may differ.                          *)
C3_CategoryFromDescriptionAlone ==
    pc = "plain" => ret2.category = ret.category

C3_Witness ==
    /\ pc = "plain"
    /\ call.with_table
    /\ call.dispute_row.amount = Num(7000)
    /\ ret2.category = ret.category
    /\ ret2.confidence # ret.confidence
    /\ ret2.explanation # ret.explanation

Called(op) == call # Nothing /\ call.op = op

(* seconds since midnight of a row's timestamp *)
SecondsOf(r) == r.timestamp.ts[1] * 3600 + r.timestamp.ts[2] * 60 + r.timestamp.ts[3]

(* the distance in time between two rows, in seconds *)
Apart(r, q) ==
    IF SecondsOf(r) < SecondsOf(q) THEN SecondsOf(q) - SecondsOf(r)
    ELSE SecondsOf(r) - SecondsOf(q)

(* the rows of the table the dispute of the call refers to *)
LinkedRows == RowsWithId(transactions, call.dispute_row.txn_id)

T1_Row == Txn("T1", "M1", "C1", 1500, Ts(10, 0, 0), "COMPLETED")

T2_RowAt(t) == Txn("T2", "M1", "C1", 1500, t, "COMPLETED")

(* C5: when the description fires the duplicate rule and the txn_id is in  *)
(* the table given to the classifier, the result is DUPLICATE_CHARGE with  *)
(* confidence 1.0, and the explanation carries the note 'Found N duplicate *)
(* transaction(s)' exactly when find_duplicate_transactions returns at     *)
(* least one transaction for the linked row, N being their number.  With   *)
(* T1 and a second transaction of the same merchant and amount 120 seconds *)
(* later the note is 'Found 1'; with it 400 seconds later there is none.   *)
C5_CorroborationNoteIffDuplicatesFound ==
    (/\ ClassifierCalled /\ call.with_table
     /\ Hit(duplicate_keywords, DescriptionRead)
     /\ LinkedRows # <<>>)
    => LET duplicates ==
               find_duplicate_transactions(LinkedRows[1], DataFrame(transactions))
       IN  /\ pc # "raised"
           /\ ret.category = "DUPLICATE_CHARGE"
           /\ ret.confidence = 100
           /\ ret.explanation.note =
                 IF Len(duplicates) >= 1 THEN [found |-> Len(duplicates)] ELSE NoNote
           /\ (/\ transactions = <<T1_Row, T2_RowAt(Ts(10, 2, 0))>>
               /\ call.dispute_row.txn_id = Str("T1"))
              => ret.explanation.note = [found |-> 1]
           /\ (/\ transactions = <<T1_Row, T2_RowAt(Ts(10, 6, 40))>>
               /\ call.dispute_row.txn_id = Str("T1"))
              => ret.explanation.note = NoNote

C5_Witness ==
    /\ ClassifierCalled /\ call.with_table
    /\ call.dispute_row.txn_id = Str("T1")
    /\ transactions = <<T1_Row, T2_RowAt(Ts(10, 6, 40))>>
    /\ ret.category = "DUPLICATE_CHARGE"
    /\ ret.confidence = 100
    /\ ret.explanation.note = NoNote

(* C6: for a transaction txn of the table, find_duplicate_transactions     *)
(* returns, once each, exactly the rows of the table with another txn_id,  *)
(* the same merchant, the same amount and a timestamp at most 300 seconds  *)
(* from txn's: a row exactly 300 seconds away is returned, a row 301       *)
(* seconds away is not, and txn itself is never returned.                  *)
C6_DuplicatesExactlyWithinWindow ==
    Called("find_duplicate_transactions")
    => LET txn == call.txn_details
           Other(r) ==
               /\ r.txn_id # txn.txn_id
               /\ r.merchant = txn.merchant
               /\ r.amount = txn.amount
           expected ==
               {i \in DOMAIN transactions :
                    Other(transactions[i]) /\ Apart(transactions[i], txn) <= 300}
           returned == {ret.duplicates[k] : k \in DOMAIN ret.duplicates}
       IN  /\ returned = {transactions[i] : i \in expected}
           /\ Len(ret.duplicates) = Cardinality(expected)
           /\ txn \notin returned
           /\ \A k \in DOMAIN ret.duplicates : ret.duplicates[k].txn_id # txn.txn_id
           /\ \A i \in DOMAIN transactions :
                Other(transactions[i]) =>
                    /\ Apart(transactions[i], txn) = 300 => transactions[i] \in returned
                    /\ Apart(transactions[i], txn) = 301 => transactions[i] \notin returned

C6_Witness ==
    /\ Called("find_duplicate_transactions")
    /\ call.txn_details = T1_Row
    /\ \E k \in DOMAIN ret.duplicates : ret.duplicates[k].timestamp = Ts(10, 5, 0)
    /\ \E i \in DOMAIN transactions :
            /\ transactions[i].merchant = Str("M1")
            /\ transactions[i].amount = Num(1500)
            /\ transactions[i].timestamp = Ts(10, 5, 1)
            /\ \A k \in DOMAIN ret.duplicates : ret.duplicates[k] # transactions[i]

(* C7: suggest_resolution answers a DUPLICATE_CHARGE dispute with          *)
(* 'Auto-refund' exactly when its txn_id is in the table and a row with    *)
(* another txn_id, the same payer and the same amount lies at most 30      *)
(* seconds from it; otherwise, an empty, missing or unknown txn_id         *)
(* included, with 'Manual review'.                                         *)
C7_AutoRefundIffConfirmedWithin30s ==
    (Called("suggest_resolution") /\ call.row.predicted_category = "DUPLICATE_CHARGE")
    => LET confirmed ==
               \E i, j \in DOMAIN transactions :
                   /\ transactions[i].txn_id = call.row.txn_id
                   /\ transactions[j].txn_id # call.row.txn_id
                   /\ transactions[j].customer_id = transactions[i].customer_id
                   /\ transactions[j].amount = transactions[i].amount
                   /\ Apart(transactions[i], transactions[j]) <= 30
       IN  /\ pc = "returned"
           /\ ret.suggested_action =
                 IF confirmed THEN "Auto-refund" ELSE "Manual review"

C7_Witness ==
    /\ Called("suggest_resolution")
    /\ call.row.predicted_category = "DUPLICATE_CHARGE"
    /\ call.row.txn_id = Str("T1")
    /\ \E j \in DOMAIN transactions :
            /\ transactions[j].customer_id = Str("C1")
            /\ transactions[j].merchant = Str("M2")
            /\ transactions[j].timestamp = Ts(10, 0, 30)
    /\ \A j \in DOMAIN transactions :
            j # 1 => Apart(transactions[1], transactions[j]) >= 30
    /\ ret.suggested_action = "Auto-refund"

(* a dispute classified against the table as DUPLICATE_CHARGE and then     *)
(* resolved, its transaction being in the table                            *)
DuplicateResolved ==
    /\ ClassifierCalled /\ call.with_table
    /\ pc = "resolved"
    /\ ret.category = "DUPLICATE_CHARGE"
    /\ LinkedRows # <<>>

(* the rows other than the linked one with its merchant, payer and amount *)
SameMerchantPayerAmount ==
    {i \in DOMAIN transactions :
        /\ transactions[i].txn_id # LinkedRows[1].txn_id
        /\ transactions[i].merchant = LinkedRows[1].merchant
        /\ transactions[i].customer_id = LinkedRows[1].customer_id
        /\ transactions[i].amount = LinkedRows[1].amount}

(* the rows other than the linked one with its payer and amount, of any    *)
(* merchant, at most 30 seconds from it                                    *)
SamePayerAmountWithin30 ==
    {i \in DOMAIN transactions :
        /\ transactions[i].txn_id # LinkedRows[1].txn_id
        /\ transactions[i].customer_id = LinkedRows[1].customer_id
        /\ transactions[i].amount = LinkedRows[1].amount
        /\ Apart(transactions[i], LinkedRows[1]) <= 30}

(* C8 as stated: with exactly one other transaction of the same merchant,  *)
(* payer and amount at distance d, 30 < d <= 300 gives the corroboration   *)
(* note and 'Manual review', d <= 30 gives 'Auto-refund'.                  *)
C8_Stated_OneOtherDecidesResolution ==
    (DuplicateResolved /\ Cardinality(SameMerchantPayerAmount) = 1)
    => \A i \in SameMerchantPayerAmount :
          LET d == Apart(transactions[i], LinkedRows[1])
          IN  /\ (30 < d /\ d <= 300)
                 => /\ "found" \in DOMAIN ret.explanation.note
                    /\ ret2.suggested_action = "Manual review"
              /\ d <= 30 => ret2.suggested_action = "Auto-refund"

(* C8: the two windows are applied independently.  With exactly one other  *)
(* transaction of the same merchant, payer and amount at distance d from   *)
(* the linked one, 30 < d <= 300 gives the corroboration note, and gives   *)
(* 'Manual review' provided no transaction of the same payer and amount    *)
(* under another merchant lies within 30 seconds; d <= 30 gives            *)
(* 'Auto-refund'.                                                          *)
C8_WindowsIndependent ==
    (DuplicateResolved /\ Cardinality(SameMerchantPayerAmount) = 1)
    => \A i \in SameMerchantPayerAmount :
          LET d == Apart(transactions[i], LinkedRows[1])
          IN  /\ (30 < d /\ d <= 300)
                 => /\ "found" \in DOMAIN ret.explanation.note
                    /\ SamePayerAmountWithin30 = {}
                       => ret2.suggested_action = "Manual review"
                    /\ SamePayerAmountWithin30 # {}
                       => ret2.suggested_action = "Auto-refund"
              /\ d <= 30 => ret2.suggested_action = "Auto-refund"

C8_Witness ==
    /\ DuplicateResolved
    /\ call.dispute_row.txn_id = Str("T1")
    /\ transactions = <<T1_Row, T2_RowAt(Ts(10, 5, 0))>>
    /\ ret.explanation.note = [found |-> 1]
    /\ ret2.suggested_action = "Manual review"

(* the end-to-end example: D1 'I was charged twice' on T1, amount 1500;    *)
(* T1 and T2 of merchant M1, amount 1500, COMPLETED, T2 120 seconds after  *)
(* T1; classified and resolved                                             *)
EndToEndExample ==
    /\ pc = "done"
    /\ disputes = <<Dispute("D1", Text(d_charged_twice), Str("T1"), Num(1500))>>
    /\ Len(transactions) = 2
    /\ transactions[1] = T1_Row
    /\ transactions[2].txn_id = Str("T2")
    /\ transactions[2].merchant = Str("M1")
    /\ transactions[2].amount = Num(1500)
    /\ transactions[2].status = Str("COMPLETED")
    /\ transactions[2].timestamp = Ts(10, 2, 0)

ClassifiedAsDuplicate(row) ==
    /\ row.dispute_id = Str("D1")
    /\ row.predicted_category = "DUPLICATE_CHARGE"
    /\ row.confidence = 100

(* C9 as stated: on the end-to-end example D1 is classified as             *)
(* DUPLICATE_CHARGE with confidence 1.0 and resolved with 'Auto-refund'.   *)
C9_Stated_EndToEndAutoRefund ==
    EndToEndExample
    => /\ ClassifiedAsDuplicate(classified.rows[1])
       /\ resolutions.rows[1].dispute_id = Str("D1")
       /\ resolutions.rows[1].suggested_action = "Auto-refund"

(* C9: on the end-to-end example, whoever the payer of T2 is and whether   *)
(* or not the classifier was given the table, the run ends without an      *)
(* exception, D1 is classified as DUPLICATE_CHARGE with confidence 1.0     *)
(* and resolved with 'Manual review': 120 seconds is outside the           *)
(* resolver's 30 second window.                                            *)
C9_EndToEndManualReview ==
    EndToEndExample
    => /\ Len(classified.rows) = 1
       /\ ClassifiedAsDuplicate(classified.rows[1])
       /\ Len(resolutions.rows) = 1
       /\ resolutions.rows[1].dispute_id = Str("D1")
       /\ resolutions.rows[1].suggested_action = "Manual review"

C9_Witness ==
    /\ EndToEndExample
    /\ call.op = "pipeline.main"
    /\ transactions[2].customer_id = Str("C1")
    /\ ClassifiedAsDuplicate(classified.rows[1])
    /\ resolutions.rows[1].suggested_action = "Manual review"

(* C10: suggest_resolution answers a FRAUD dispute by its amount alone,    *)
(* whatever its txn_id and the table: above 5000 'Escalate to bank', above *)
(* 1000 and up to 5000 'Mark as potential fraud', up to 1000 'Manual       *)
(* review'; 7000, 3000 and 500 give the three actions, 5000 and 1000 the   *)
(* lower of their two bands.                                               *)
C10_FraudResolutionByAmountBands ==
    (/\ Called("suggest_resolution")
     /\ call.row.predicted_category = "FRAUD"
     /\ IsNum(call.row.amount))
    => LET amount == call.row.amount.num
       IN  /\ pc = "returned"
           /\ ret.suggested_action =
                 IF amount > 5000 THEN "Escalate to bank"
                 ELSE IF amount > 1000 THEN "Mark as potential fraud"
                 ELSE "Manual review"
           /\ amount = 7000 => ret.suggested_action = "Escalate to bank"
           /\ amount \in {3000, 5000} => ret.suggested_action = "Mark as potential fraud"
           /\ amount \in {500, 1000} => ret.suggested_action = "Manual review"

C10_Witness ==
    /\ Called("suggest_resolution")
    /\ call.row.predicted_category = "FRAUD"
    /\ call.row.amount = Num(5000)
    /\ call.row.txn_id = Str("T1")
    /\ transactions # <<>>
    /\ transactions[1].status = Str("FAILED")
    /\ ret.suggested_action = "Mark as potential fraud"

(* the rows of the table a resolved dispute refers to, by exact txn_id *)
ResolvedRows ==
    LET Linked(r) == r.txn_id = call.row.txn_id
    IN  SelectSeq(transactions, Linked)

(* C11: suggest_resolution answers a FAILED_TRANSACTION dispute with       *)
(* 'Auto-refund' when the linked transaction's status is FAILED or         *)
(* CANCELLED, with 'Manual review' when it is PENDING, and with 'Ask for   *)
(* more info' when the transaction is in the table with any other status   *)
(* or is not in the table.                                                 *)
C11_FailedResolutionByStatus ==
    (Called("suggest_resolution") /\ call.row.predicted_category = "FAILED_TRANSACTION")
    => /\ pc = "returned"
       /\ ret.suggested_action =
             IF ResolvedRows = <<>> THEN "Ask for more info"
             ELSE IF ResolvedRows[1].status \in {Str("FAILED"), Str("CANCELLED")}
             THEN "Auto-refund"
             ELSE IF ResolvedRows[1].status = Str("PENDING") THEN "Manual review"
             ELSE "Ask for more info"

C11_Witness ==
    /\ Called("suggest_resolution")
    /\ call.row.predicted_category = "FAILED_TRANSACTION"
    /\ ResolvedRows # <<>>
    /\ ResolvedRows[1].status = Str("PENDING")
    /\ ret.suggested_action = "Manual review"

(* C12: suggest_resolution answers a REFUND_PENDING dispute with           *)
(* 'Auto-refund' when the linked transaction's status is CANCELLED or      *)
(* FAILED, and with 'Manual review' when the transaction is in the table   *)
(* with any other status and when it is not in the table.                  *)
C12_RefundResolutionByStatus ==
    (Called("suggest_resolution") /\ call.row.predicted_category = "REFUND_PENDING")
    => /\ pc = "returned"
       /\ ret.suggested_action =
             IF /\ ResolvedRows # <<>>
                /\ ResolvedRows[1].status \in {Str("CANCELLED"), Str("FAILED")}
             THEN "Auto-refund"
             ELSE "Manual review"

C12_Witness ==
    /\ Called("suggest_resolution")
    /\ call.row.predicted_category = "REFUND_PENDING"
    /\ ResolvedRows # <<>>
    /\ ResolvedRows[1].status = Str("FAILED")
    /\ ret.suggested_action = "Auto-refund"

(* C13: every result of suggest_resolution has one of the five actions and *)
(* a justification that is not empty; OTHERS gives 'Ask for more info',    *)
(* and a category outside the five gives 'Ask for more info' with the      *)
(* justification 'No strong rule applied.'.                                *)
C13_ActionAndJustificationAlwaysSet ==
    Called("suggest_resolution")
    => /\ pc = "returned"
       /\ ret.suggested_action \in Actions
       /\ \E k \in DOMAIN ret.justification : ret.justification[k] # ""
       /\ call.row.predicted_category = "OTHERS"
          => ret.suggested_action = "Ask for more info"
       /\ call.row.predicted_category \notin Categories
          => /\ ret.suggested_action = "Ask for more info"
             /\ ret.justification = <<"No strong rule applied.">>

C13_Witness ==
    /\ Called("suggest_resolution")
    /\ call.row.predicted_category \notin Categories
    /\ call.row.txn_id = Str("T1")
    /\ ResolvedRows # <<>>
    /\ ret.suggested_action = "Ask for more info"
    /\ ret.justification = <<"No strong rule applied.">>

(* C14: generate_resolutions emits one resolution per classified dispute,  *)
(* in the order of the rows, the i-th carrying the dispute_id of the i-th  *)
(* classified dispute.                                                     *)
C14_OneResolutionPerDisputeInOrder ==
    pc = "done"
    => /\ Len(resolutions.rows) = Len(classified.rows)
       /\ \A i \in DOMAIN classified.rows :
            /\ i \in DOMAIN resolutions.rows
            /\ resolutions.rows[i].dispute_id = classified.rows[i].dispute_id
       /\ \A i, j \in DOMAIN resolutions.rows :
            i # j => resolutions.rows[i].dispute_id # resolutions.rows[j].dispute_id

C14_Witness ==
    /\ pc = "done"
    /\ Len(classified.rows) = MaxDisputes
    /\ classified.rows[1].predicted_category = "OTHERS"
    /\ classified.rows[MaxDisputes].predicted_category = "FRAUD"
    /\ Len(resolutions.rows) = MaxDisputes
    /\ resolutions.rows[1].dispute_id = Str("D1")
    /\ resolutions.rows[1].suggested_action = "Ask for more info"
    /\ resolutions.rows[MaxDisputes].suggested_action = "Escalate to bank"

(* the transaction a dispute of a batch run is matched with: the rows of   *)
(* the table with its txn_id, none when the classifier got no table or the *)
(* txn_id is empty                                                         *)
BatchMatch(d) ==
    LET Linked(r) == r.txn_id = d.txn_id
    IN  IF call.with_table /\ d.txn_id # Str("") THEN SelectSeq(transactions, Linked)
        ELSE <<>>

(* C16: classify_disputes emits one record per input dispute, in input     *)
(* order, with the input's dispute_id, txn_id and amount, the category,    *)
(* confidence and explanation the classifier gives that dispute, and the   *)
(* merchant and channel of the transaction matched by txn_id, or the empty *)
(* string when no table is given, the txn_id is empty or nothing matches.  *)
C16_OneRecordPerDisputeInOrder ==
    pc = "classified"
    => /\ Len(classified.rows) = Len(disputes)
       /\ \A i \in DOMAIN disputes :
            LET d == disputes[i]
                c == classified.rows[i]
                r == classify_dispute_enhanced(d, TableArg(call.with_table),
                                               TableArg(call.with_table))
            IN  /\ c.dispute_id = d.dispute_id
                /\ c.txn_id = d.txn_id
                /\ c.amount = d.amount
                /\ c.predicted_category = r.category
                /\ c.confidence = r.confidence
                /\ c.explanation = r.explanation
                /\ c.merchant =
                      IF BatchMatch(d) # <<>> THEN BatchMatch(d)[1].merchant ELSE Str("")
                /\ c.channel =
                      IF BatchMatch(d) # <<>> THEN BatchMatch(d)[1].channel ELSE Str("")

C16_Witness ==
    /\ pc = "classified"
    /\ call.with_table
    /\ Len(disputes) = MaxDisputes
    /\ disputes[1].txn_id = Str("T9")
    /\ disputes[MaxDisputes].txn_id = Str("T1")
    /\ transactions # <<>>
    /\ classified.rows[1].merchant = Str("")
    /\ classified.rows[MaxDisputes].merchant = Str("M1")
    /\ classified.rows[MaxDisputes].channel = Str("Mobile")
    /\ classified.rows[MaxDisputes].dispute_id = disputes[MaxDisputes].dispute_id

(***************************************************************************)
(* Two resolutions compared: a classified dispute is resolved against the  *)
(* table, then a classified dispute of the same category is resolved       *)
(* against a table of its own.                                             *)
(***************************************************************************)
MaxPairTxns == 2

PairRows(i) ==
    IF i = 1
    THEN {Txn("T1", "M1", "C1", 1500, Ts(10, 0, 0), s) :
            s \in {"COMPLETED", "FAILED", "PENDING"}}
    ELSE {Txn(TxnIds[i], "M1", "C1", 1500, t, "COMPLETED") :
            t \in {Ts(10, 0, 30), Ts(10, 2, 0)}}

PairClassified ==
    {[dispute_id |-> Str("D1"), txn_id |-> Str(id), amount |-> Num(a),
      predicted_category |-> c] :
        id \in {"T1", "T9"}, a \in {500, 3000, 7000}, c \in Categories}

InitPair ==
    /\ transactions \in TablesOf(PairRows, MaxPairTxns)
    /\ disputes = <<>>
    /\ Idle

(* suggest_resolution(row, table) for another dispute and another table *)
SuggestResolutionElsewhere(row, table) ==
    /\ pc = "returned"
    /\ call.op = "suggest_resolution"
    /\ ret2' = [row |-> row, table |-> table,
                result |-> suggest_resolution(row, DataFrame(table))]
    /\ pc' = "compared"
    /\ UNCHANGED <<transactions, disputes, call, ret, classified, resolutions>>

NextPair ==
    \/ Start /\ \E row \in PairClassified : SuggestResolution(row)
    \/ /\ pc = "returned"
       /\ \E row \in {r \in PairClassified :
                        r.predicted_category = call.row.predicted_category},
             table \in TablesOf(PairRows, MaxPairTxns) :
                SuggestResolutionElsewhere(row, table)

SpecPair == InitPair /\ [][NextPair]_vars

(* the status of the transaction a classified dispute refers to, when the  *)
(* table has it                                                            *)
StatusIfResolvable(row, table) ==
    LET Linked(r) == r.txn_id = row.txn_id
        found == SelectSeq(table, Linked)
    IN  IF found = <<>> THEN [unresolvable |-> TRUE] ELSE found[1].status

(* another transaction of the same payer and amount lies within 30 seconds *)
(* of the one the dispute refers to                                        *)
ConfirmedIn(row, table) ==
    \E i, j \in DOMAIN table :
        /\ table[i].txn_id = row.txn_id
        /\ table[j].txn_id # row.txn_id
        /\ table[j].customer_id = table[i].customer_id
        /\ table[j].amount = table[i].amount
        /\ Apart(table[i], table[j]) <= 30

SameDecisionInputs ==
    /\ pc = "compared"
    /\ ret2.row.predicted_category = call.row.predicted_category
    /\ ret2.row.amount = call.row.amount
    /\ StatusIfResolvable(ret2.row, ret2.table) = StatusIfResolvable(call.row, transactions)

(* C15 as stated: two classified disputes that agree on category, status   *)
(* of the linked transaction if resolvable, and amount get the same        *)
(* action, whatever the tables they are resolved against.                  *)
C15_Stated_ActionFromCategoryStatusAmount ==
    SameDecisionInputs => ret2.result.suggested_action = ret.suggested_action

(* C15: two classified disputes that agree on category, status of the      *)
(* linked transaction if resolvable, and amount get the same action        *)
(* provided that, for DUPLICATE_CHARGE, they also agree on whether another *)
(* transaction of the same payer and amount lies within 30 seconds of the  *)
(* linked one; the action of a DUPLICATE_CHARGE dispute is 'Auto-refund'   *)
(* with such a transaction and 'Manual review' without.                    *)
C15_ActionFromDecisionInputs ==
    SameDecisionInputs
    => /\ (call.row.predicted_category = "DUPLICATE_CHARGE"
            => ConfirmedIn(ret2.row, ret2.table) = ConfirmedIn(call.row, transactions))
          => ret2.result.suggested_action = ret.suggested_action
       /\ call.row.predicted_category = "DUPLICATE_CHARGE"
          => /\ ret.suggested_action =
                   IF ConfirmedIn(call.row, transactions)
                   THEN "Auto-refund" ELSE "Manual review"
             /\ ret2.result.suggested_action =
                   IF ConfirmedIn(ret2.row, ret2.table)
                   THEN "Auto-refund" ELSE "Manual review"

C15_Witness ==
    /\ SameDecisionInputs
    /\ call.row.predicted_category = "FAILED_TRANSACTION"
    /\ ret2.table # transactions
    /\ Len(ret2.table) # Len(transactions)
    /\ StatusIfResolvable(call.row, transactions) = Str("FAILED")
    /\ ret.suggested_action = "Auto-refund"
    /\ ret2.result.suggested_action = "Auto-refund"

(* C17: a dispute whose txn_id is not in the transaction table is          *)
(* classified and resolved without an exception, and classified as with    *)
(* no transaction table at all; with the description 'payment failed' it   *)
(* is FAILED_TRANSACTION with confidence 0.9 and no status note, and its   *)
(* resolution is 'Ask for more info'.                                      *)
C17_MissingTransactionNoContext ==
    (ClassifierCalled /\ LinkedRows = <<>>)
    => /\ pc # "raised"
       /\ pc = "returned"
          => ret = classify_dispute_enhanced(call.dispute_row, None, None)
       /\ pc = "resolved" => "suggested_action" \in DOMAIN ret2
       /\ call.dispute_row.description = Text(d_payment_failed)
          => /\ ret.category = "FAILED_TRANSACTION"
             /\ ret.confidence = 90
             /\ ret.explanation.note = NoNote
             /\ pc = "resolved" => ret2.suggested_action = "Ask for more info"

C17_Witness ==
    /\ ClassifierCalled /\ call.with_table
    /\ pc = "resolved"
    /\ call.dispute_row.description = Text(d_payment_failed)
    /\ call.dispute_row.txn_id = Str("T9")
    /\ transactions # <<>>
    /\ transactions[1].status = Str("FAILED")
    /\ ret.category = "FAILED_TRANSACTION"
    /\ ret.confidence = 90
    /\ ret2.suggested_action = "Ask for more info"

(***************************************************************************)
(* Faulty records: tables whose rows may carry a timestamp that does not   *)
(* parse or no status, and disputes whose amount may not be a number.      *)
(***************************************************************************)
MaxFaultyTxns == 3

BadTimestamp == Str("not-a-time")

FaultyRows(i) ==
    IF i = 1
    THEN {T1_Row,
          [T1_Row EXCEPT !.timestamp = BadTimestamp],
          [T1_Row EXCEPT !.status = NaN]}
    ELSE {Txn(TxnIds[i], "M1", "C1", 1500, Ts(10, 0, 30), "COMPLETED"),
          Txn(TxnIds[i], "M1", "C1", 1500, Ts(10, 2, 0), "COMPLETED"),
          [Txn(TxnIds[i], "M1", "C1", 1500, Ts(10, 2, 0), "COMPLETED")
              EXCEPT !.timestamp = BadTimestamp]}

FaultyDisputes(i) ==
    {Dispute(DisputeIds[i], Text(d_charged_twice), Str("T1"), Num(1500)),
     Dispute(DisputeIds[i], Text(d_payment_failed), Str("T1"), Num(1500)),
     Dispute(DisputeIds[i], Text(d_fraud), Str("T1"), Str("abc")),
     Dispute(DisputeIds[i], Text(d_payment_failed), Str("T9"), Num(500)),
     Dispute(DisputeIds[i], Text(d_others), Str(""), Num(0))}

InitFaulty ==
    /\ transactions \in TablesOf(FaultyRows, MaxFaultyTxns)
    /\ disputes \in TablesOf(FaultyDisputes, MaxDisputes)
    /\ Idle

(* transactions with the merchant, the amount or the timestamp missing: an *)
(* empty field, a zero, or the NaN read from an empty CSV field            *)
IncompleteTxns ==
    {[T1_Row EXCEPT !.merchant = m] : m \in {Str(""), NaN}}
    \cup {[T1_Row EXCEPT !.amount = a] : a \in {Num(0), NaN}}
    \cup {[T1_Row EXCEPT !.timestamp = t] : t \in {Str(""), NaN}}
    \cup {[T1_Row EXCEPT !.merchant = Str(""), !.amount = Num(0), !.timestamp = Str("")]}

(* find_duplicate_transactions(txn, the table) for a transaction that is   *)
(* not a row of the table                                                  *)
FindDuplicatesFor(txn) ==
    /\ pc = "start"
    /\ call' = [op |-> "find_duplicate_transactions", txn_details |-> txn]
    /\ ret' = [duplicates |->
                find_duplicate_transactions(txn, DataFrame(transactions))]
    /\ pc' = "returned"
    /\ UNCHANGED <<transactions, disputes, ret2, classified, resolutions>>

NextFaulty ==
    \/ PipelineClassify
    \/ \E with_table \in BOOLEAN : ClassifyMain(with_table)
    \/ Resolve
    \/ Start /\ \E i \in DOMAIN disputes, with_table \in BOOLEAN :
                    Classify(disputes[i], with_table)
    \/ Start /\ \E i \in DOMAIN transactions : FindDuplicates(i)
    \/ Start /\ \E txn \in IncompleteTxns : FindDuplicatesFor(txn)

SpecFaulty == InitFaulty /\ [][NextFaulty]_vars

BatchRun == call # Nothing /\ call.op \in {"pipeline.main", "classify.main"}

(* classifying the dispute alone, with the table the run was given, fails *)
ClassifyingFails(d) ==
    Raised(classify_dispute_enhanced(d, TableArg(call.with_table),
                                     TableArg(call.with_table)))

(* resolving the classified dispute alone fails *)
ResolvingFails(c) == Raised(suggest_resolution(c, DataFrame(transactions)))

(* C18 as stated: a failure on one record never stops the batch.           *)
(* classify_disputes and generate_resolutions end without an exception and *)
(* emit a record for every dispute; the record of a dispute whose          *)
(* classification or resolution fails is the default (OTHERS, 'Ask for     *)
(* more info'), every other record is the one that dispute gets alone.     *)
C18_Stated_FailureNeverStopsBatch ==
    BatchRun
    => /\ pc # "raised"
       /\ pc \in {"classified", "done"}
          => /\ Len(classified.rows) = Len(disputes)
             /\ \A i \in DOMAIN disputes :
                  IF ClassifyingFails(disputes[i])
                  THEN classified.rows[i].predicted_category = "OTHERS"
                  ELSE classified.rows[i] =
                          ClassifiedRow(disputes[i], TableArg(call.with_table))
       /\ pc = "done"
          => /\ Len(resolutions.rows) = Len(disputes)
             /\ \A i \in DOMAIN disputes :
                  LET c == CsvRoundTrip(classified).rows[i]
                  IN  IF ResolvingFails(c)
                      THEN resolutions.rows[i].suggested_action = "Ask for more info"
                      ELSE resolutions.rows[i] =
                              suggest_resolution(c, DataFrame(transactions))

(* the fields of a transaction row that the rules read are well formed *)
RowWellFormed(r) ==
    /\ WellFormed(r.timestamp)
    /\ DOMAIN r.status = {"str"}
    /\ IsNum(r.amount)

(* C19 as stated: classify_dispute_enhanced never raises, and when a field *)
(* of the linked transaction is missing or does not parse the category and *)
(* the confidence are those computed without transaction context.          *)
C19_Stated_ClassifierNeverRaises ==
    ClassifierCalled
    => /\ pc # "raised"
       /\ "category" \in DOMAIN ret
       /\ (call.with_table /\ LinkedRows # <<>> /\ ~RowWellFormed(LinkedRows[1]))
          => LET plain == classify_dispute_enhanced(
                              [call.dispute_row EXCEPT !.amount =
                                  IF Comparable(@) THEN @ ELSE Num(0)],
                              None, None)
             IN  /\ ret.category = plain.category
                 /\ ret.confidence = plain.confidence

(* C20 as stated: for a transaction txn with a well-formed timestamp,      *)
(* find_duplicate_transactions leaves the rows with a malformed timestamp  *)
(* out and still returns, in table order, every other row of the same      *)
(* merchant and amount at most 300 seconds from txn.                       *)
C20_Stated_MalformedRowIsSkipped ==
    (Called("find_duplicate_transactions") /\ WellFormed(call.txn_details.timestamp))
    => LET txn == call.txn_details
           Expected(r) ==
               /\ r.txn_id # txn.txn_id
               /\ r.merchant = txn.merchant
               /\ r.amount = txn.amount
               /\ WellFormed(r.timestamp)
               /\ Apart(r, txn) <= 300
       IN  ret.duplicates = SelectSeq(transactions, Expected)

(* a batch that stops: both disputes are classified, the resolution of the *)
(* first one raises on the timestamp of T1, and the second one, which      *)
(* resolves alone, gets no resolution                                      *)
C18_BatchAborted ==
    /\ BatchRun
    /\ call.op = "pipeline.main"
    /\ pc = "raised"
    /\ Len(disputes) = 2
    /\ disputes[1] = Dispute("D1", Text(d_charged_twice), Str("T1"), Num(1500))
    /\ disputes[2] = Dispute("D2", Text(d_others), Str(""), Num(0))
    /\ transactions = <<[T1_Row EXCEPT !.timestamp = BadTimestamp]>>
    /\ "rows" \in DOMAIN classified
    /\ Len(classified.rows) = 2
    /\ resolutions = Raise("ValueError")
    /\ ~ResolvingFails(CsvRoundTrip(classified).rows[2])

(* the classifier raising on a linked transaction without a status *)
C19_ClassifierRaised ==
    /\ ClassifierCalled /\ call.with_table
    /\ call.dispute_row = Dispute("D1", Text(d_payment_failed), Str("T1"), Num(1500))
    /\ LinkedRows # <<>>
    /\ LinkedRows[1].status = NaN
    /\ pc = "raised"
    /\ ret = Raise("AttributeError")

(* a malformed row emptying the result: T3 is 30 seconds from T1, of the   *)
(* same merchant and amount, and is not returned                           *)
C20_ResultEmptied ==
    /\ Called("find_duplicate_transactions")
    /\ call.txn_details = T1_Row
    /\ Len(transactions) = 3
    /\ transactions[2].timestamp = BadTimestamp
    /\ transactions[3] = Txn("T3", "M1", "C1", 1500, Ts(10, 0, 30), "COMPLETED")
    /\ ret.duplicates = <<>>

MissingField(c) == c \in {Str(""), Num(0), NaN}

(* C21: when the merchant, the amount or the timestamp of the transaction  *)
(* passed to find_duplicate_transactions is missing (empty, zero, or NaN), *)
(* the function returns the empty sequence and raises nothing, whatever    *)
(* the table holds, rows with a malformed timestamp included.              *)
C21_MissingFieldGivesEmpty ==
    (/\ Called("find_duplicate_transactions")
     /\ \/ MissingField(call.txn_details.merchant)
        \/ MissingField(call.txn_details.amount)
        \/ MissingField(call.txn_details.timestamp))
    => /\ pc = "returned"
       /\ ret.duplicates = <<>>

C21_Witness ==
    /\ Called("find_duplicate_transactions")
    /\ call.txn_details = [T1_Row EXCEPT !.merchant = Str("")]
    /\ Len(transactions) = 3
    /\ transactions[2] = Txn("T2", "M1", "C1", 1500, Ts(10, 0, 30), "COMPLETED")
    /\ transactions[3].timestamp = BadTimestamp
    /\ ret.duplicates = <<>>

(* the classifier returned with the category of the given rule *)
RuleReturned(category) ==
    /\ ClassifierCalled
    /\ pc = "returned"
    /\ ret.category = category

(* the transaction the classifier links the dispute to: the first row with *)
(* its txn_id, when a table is given                                       *)
ContextRows == IF call.with_table THEN LinkedRows ELSE <<>>

(* the spellings of a status that read FAILED, CANCELLED when upper-cased *)
ReadsFailed == {Str("FAILED"), Str("Failed"), Str("failed")}

ReadsCancelled == {Str("CANCELLED"), Str("Cancelled"), Str("cancelled")}

(* C22 as stated: when the failed-transaction rule fires, the confidence   *)
(* is 1.0 and the explanation names the status exactly when the linked     *)
(* transaction is resolvable and its status is FAILED or CANCELLED; in     *)
(* every other case it is 0.9.                                             *)
C22_Stated_BumpIffFailedOrCancelled ==
    RuleReturned("FAILED_TRANSACTION")
    => LET bumped ==
               /\ ContextRows # <<>>
               /\ ContextRows[1].status \in {Str("FAILED"), Str("CANCELLED")}
       IN  /\ ret.confidence = IF bumped THEN 100 ELSE 90
           /\ bumped <=> "status" \in DOMAIN ret.explanation.note

(* C22: when the failed-transaction rule fires, the confidence is 1.0 and  *)
(* the explanation names the upper-cased status exactly when the linked    *)
(* transaction is resolvable and its status reads FAILED or CANCELLED in   *)
(* any letter case; in every other case (other status, no table, empty or  *)
(* unknown txn_id) the confidence is 0.9 and no status is named.           *)
C22_BumpIffReadsFailedOrCancelled ==
    RuleReturned("FAILED_TRANSACTION")
    => LET bumped ==
               /\ ContextRows # <<>>
               /\ ContextRows[1].status \in ReadsFailed \cup ReadsCancelled
       IN  /\ ret.confidence = IF bumped THEN 100 ELSE 90
           /\ ret.explanation.note =
                 IF ~bumped THEN NoNote
                 ELSE IF ContextRows[1].status \in ReadsFailed
                 THEN [status |-> "FAILED"]
                 ELSE [status |-> "CANCELLED"]

C22_Witness ==
    /\ RuleReturned("FAILED_TRANSACTION")
    /\ ContextRows # <<>>
    /\ ContextRows[1].status = Str("failed")
    /\ ret.confidence = 100
    /\ ret.explanation.note = [status |-> "FAILED"]

(* C23 as stated: when the refund rule fires, the confidence is 1.0        *)
(* exactly when the linked transaction is resolvable and its status is     *)
(* CANCELLED; for every other status, FAILED included, and for an          *)
(* unresolvable transaction it is 0.8.                                     *)
C23_Stated_BumpIffCancelled ==
    RuleReturned("REFUND_PENDING")
    => ret.confidence =
          IF ContextRows # <<>> /\ ContextRows[1].status = Str("CANCELLED")
          THEN 100 ELSE 80

(* C23: when the refund rule fires, the confidence is 1.0 exactly when the *)
(* linked transaction is resolvable and its status reads CANCELLED in any  *)
(* letter case; for every other status, FAILED included, and for an        *)
(* unresolvable transaction it is 0.8.                                     *)
C23_BumpIffReadsCancelled ==
    RuleReturned("REFUND_PENDING")
    => LET bumped == ContextRows # <<>> /\ ContextRows[1].status \in ReadsCancelled
       IN  /\ ret.confidence = IF bumped THEN 100 ELSE 80
           /\ ret.explanation.note =
                 IF bumped THEN [status |-> "CANCELLED"] ELSE NoNote

C23_Witness ==
    /\ RuleReturned("REFUND_PENDING")
    /\ call.dispute_row.description = Text(d_waiting_refund)
    /\ ContextRows # <<>>
    /\ ContextRows[1].status = Str("FAILED")
    /\ ret.confidence = 80

(* C24: when the fraud rule fires the category is FRAUD with confidence    *)
(* 1.0 for every amount; the explanation carries the amount note exactly   *)
(* when the amount is above 5000 (not at 5000, not when it is missing);    *)
(* and the rule fires for an amount exactly when it fires for the same     *)
(* description with amount 0.                                              *)
C24_FraudConfidenceAndAmountNote ==
    /\ RuleReturned("FRAUD")
       => /\ ret.confidence = 100
          /\ ret.explanation.note =
                IF IsNum(call.dispute_row.amount) /\ call.dispute_row.amount.num > 5000
                THEN [high_amount |-> call.dispute_row.amount]
                ELSE NoNote
    /\ pc = "plain" => (ret.category = "FRAUD" <=> ret2.category = "FRAUD")

C24_Witness ==
    /\ ClassifierCalled
    /\ pc = "plain"
    /\ call.dispute_row.amount = Num(5000)
    /\ ret.category = "FRAUD"
    /\ ret.confidence = 100
    /\ ret.explanation.note = NoNote
    /\ ret2.category = "FRAUD"

(* C25: when the description contains no keyword of any rule, is missing   *)
(* or is not text, the result is OTHERS with confidence 0.5 and the        *)
(* explanation 'No strong keyword match', followed by the merchant and     *)
(* channel of the linked transaction exactly when it is resolvable.        *)
C25_DefaultIsOthers ==
    (/\ ClassifierCalled /\ pc = "returned"
     /\ ~Hit(duplicate_keywords, DescriptionRead)
     /\ ~Hit(failed_keywords, DescriptionRead)
     /\ ~Hit(fraud_keywords, DescriptionRead)
     /\ ~Hit(refund_keywords, DescriptionRead))
    => /\ ret.category = "OTHERS"
       /\ ret.confidence = 50
       /\ ret.explanation.text = "No strong keyword match"
       /\ ret.explanation.note =
             IF ContextRows # <<>>
             THEN [merchant |-> ContextRows[1].merchant,
                   channel |-> ContextRows[1].channel]
             ELSE NoNote
       /\ call.dispute_row.description \in {NaN, Text(<<>>)} => ret.category = "OTHERS"

C25_Witness ==
    /\ ClassifierCalled /\ pc = "returned"
    /\ call.with_table
    /\ call.dispute_row.description = NaN
    /\ ContextRows # <<>>
    /\ ret.category = "OTHERS"
    /\ ret.confidence = 50
    /\ ret.explanation.note = [merchant |-> Str("M1"), channel |-> Str("Mobile")]

(* the refund keywords that contain a failed keyword: 'refund pending',    *)
(* 'still not refunded', 'refund not received'; and the other three        *)
ShadowedRefundKeywords == {refund_keywords[2], refund_keywords[3], refund_keywords[4]}

OpenRefundKeywords == {refund_keywords[1], refund_keywords[5], refund_keywords[6]}

(* C29: a description that contains 'refund pending', 'still not refunded' *)
(* or 'refund not received' is never REFUND_PENDING: it is                 *)
(* DUPLICATE_CHARGE when a duplicate keyword matches too and               *)
(* FAILED_TRANSACTION otherwise.  REFUND_PENDING is returned only on the   *)
(* keywords 'waiting for refund', 'still waiting' and 'refund for          *)
(* canceled', in a description with no duplicate, failed or fraud keyword. *)
C29_RefundKeywordsShadowed ==
    /\ \A k \in ShadowedRefundKeywords : Hit(failed_keywords, k)
    /\ (ClassifierCalled /\ pc = "returned")
       => /\ (\E k \in ShadowedRefundKeywords : Contains(k, DescriptionRead))
             => ret.category =
                   IF Hit(duplicate_keywords, DescriptionRead)
                   THEN "DUPLICATE_CHARGE" ELSE "FAILED_TRANSACTION"
          /\ ret.category = "REFUND_PENDING"
             => /\ ret.explanation.kw \in OpenRefundKeywords
                /\ Contains(ret.explanation.kw, DescriptionRead)
                /\ ~Hit(duplicate_keywords, DescriptionRead)
                /\ ~Hit(failed_keywords, DescriptionRead)
                /\ ~Hit(fraud_keywords, DescriptionRead)

C29_Witness ==
    /\ ClassifierCalled /\ pc = "returned"
    /\ call.dispute_row.description = Text(d_refund_pending)
    /\ Contains(refund_keywords[2], DescriptionRead)
    /\ ret.category = "FAILED_TRANSACTION"
    /\ ret.explanation.kw = failed_keywords[5]

(* C30: for a FAILED_TRANSACTION dispute classified against the table and  *)
(* then resolved, whose linked transaction has a status that is not        *)
(* exactly FAILED or CANCELLED but reads so when upper-cased, the          *)
(* classifier gives confidence 1.0 and the resolver 'Ask for more info';   *)
(* with the status exactly FAILED or CANCELLED the confidence is 1.0 and   *)
(* the action 'Auto-refund'.                                               *)
C30_StatusCaseClassifierVsResolver ==
    (/\ ClassifierCalled /\ pc = "resolved"
     /\ ret.category = "FAILED_TRANSACTION"
     /\ ContextRows # <<>>)
    => LET status == ContextRows[1].status
       IN  /\ status \in {Str("FAILED"), Str("CANCELLED")}
              => /\ ret.confidence = 100
                 /\ ret2.suggested_action = "Auto-refund"
           /\ status \in (ReadsFailed \cup ReadsCancelled) \ {Str("FAILED"), Str("CANCELLED")}
              => /\ ret.confidence = 100
                 /\ ret2.suggested_action = "Ask for more info"

C30_Witness ==
    /\ ClassifierCalled /\ pc = "resolved"
    /\ ret.category = "FAILED_TRANSACTION"
    /\ ContextRows # <<>>
    /\ ContextRows[1].status = Str("failed")
    /\ ret.confidence = 100
    /\ ret.explanation.note = [status |-> "FAILED"]
    /\ ret2.suggested_action = "Ask for more info"

(* a run of pipeline.py main that has classified its disputes *)
PipelineRun ==
    /\ call # Nothing /\ call.op = "pipeline.main"
    /\ pc \in {"classified", "done"}

(* C26: in a run of pipeline.py main the classified disputes are those the *)
(* batch driver computes from the disputes and the transaction table       *)
(* (merchant and channel of the matched transaction, status and duplicate  *)
(* refinements applied); no resolution exists before all disputes are      *)
(* classified, and the resolutions are computed from the classified output *)
(* of that run.                                                            *)
C26_Stated_PipelineDriverGetsTransactions ==
    PipelineRun
    => /\ classified = classify_disputes(DataFrame(disputes), DataFrame(transactions))
       /\ pc = "classified" => resolutions = Nothing
       /\ pc = "done"
          => resolutions = generate_resolutions(CsvRoundTrip(classified),
                                                DataFrame(transactions))

(* a pipeline run whose dispute is linked to a FAILED transaction of the   *)
(* table and is classified without it: confidence 0.9, no merchant and no  *)
(* channel                                                                 *)
C26_PipelineIgnoresTransactions ==
    /\ PipelineRun
    /\ pc = "done"
    /\ disputes = <<Dispute("D1", Text(d_payment_failed), Str("T1"), Num(1500))>>
    /\ transactions = <<Txn("T1", "M1", "C1", 1500, Ts(10, 0, 0), "FAILED")>>
    /\ classified.rows[1].predicted_category = "FAILED_TRANSACTION"
    /\ classified.rows[1].confidence = 90
    /\ classified.rows[1].merchant = Str("")
    /\ classified.rows[1].channel = Str("")
    /\ resolutions.rows[1].suggested_action = "Auto-refund"

(***************************************************************************)
(* Sequences of calls on the same tables: every function of the classifier *)
(* and of the resolver, one call after another.                            *)
(***************************************************************************)
(* the disputes of the tables the calls are made on *)
FrameDisputes(i) ==
    {Dispute(DisputeIds[i], Text(d_charged_twice), Str("T1"), Num(1500)),
     Dispute(DisputeIds[i], Text(d_payment_failed), Str("T1"), Num(1500)),
     Dispute(DisputeIds[i], Text(d_others), Str(""), Num(0))}

InitFrame ==
    /\ transactions \in TablesOf(BatchRows, MaxTxns)
    /\ disputes \in TablesOf(FrameDisputes, MaxDisputes)
    /\ Idle

(* the classified records a caller may hand to suggest_resolution for the  *)
(* disputes of the table                                                   *)
FrameClassified ==
    {[dispute_id |-> disputes[i].dispute_id, txn_id |-> disputes[i].txn_id,
      amount |-> disputes[i].amount, predicted_category |-> c] :
        i \in DOMAIN disputes, c \in Categories}

(* app.py keeps the uploaded tables in the session (lines 225-244): the    *)
(* next call is made on the tables as the last call left them              *)
NextCall ==
    /\ pc # "start"
    /\ pc' = "start"
    /\ call' = Nothing /\ ret' = Nothing /\ ret2' = Nothing
    /\ classified' = Nothing /\ resolutions' = Nothing
    /\ UNCHANGED <<transactions, disputes>>

NextFrame ==
    \/ Start /\ \E i \in DOMAIN disputes, with_table \in BOOLEAN :
                    Classify(disputes[i], with_table)
    \/ Start /\ \E i \in DOMAIN transactions : FindDuplicates(i)
    \/ Start /\ \E i \in DOMAIN transactions : IsDuplicate(transactions[i].txn_id)
    \/ Start /\ \E row \in FrameClassified : SuggestResolution(row)
    \/ PipelineClassify
    \/ \E with_table \in BOOLEAN : ClassifyMain(with_table)
    \/ Resolve
    \/ NextCall

SpecFrame == InitFrame /\ [][NextFrame]_vars

(* C27: no call of classify_dispute_enhanced, find_duplicate_transactions, *)
(* classify_disputes, is_duplicate, suggest_resolution or                  *)
(* generate_resolutions, in any sequence, changes a row or a value of the  *)
(* transaction table or of the input disputes; the results are in the      *)
(* records the calls return.                                               *)
C27_InputsUnchanged ==
    [][transactions' = transactions /\ disputes' = disputes]_vars

C27_Witness ==
    /\ Called("is_duplicate")
    /\ pc = "returned"
    /\ ret = [value |-> TRUE]
    /\ Len(transactions) = 2
    /\ disputes # <<>>

(***************************************************************************)
(* Natural-language queries: nlp_processor.py.                             *)
(* A JSON value is a cell: Str, Num, NaN, None, List, or Dict of a record  *)
(* that holds Missing for the keys the object does not have.               *)
(***************************************************************************)
Missing == [missing |-> TRUE]

List == [list |-> TRUE]

Dict(fields) == [dict |-> fields]

IsMissing(c) == DOMAIN c = {"missing"}

IsDict(c) == DOMAIN c = {"dict"}

(* dict.get(key, default) *)
Get(d, key, default) == IF IsMissing(d.dict[key]) THEN default ELSE d.dict[key]

(* lines 14-29: the keys *)
get_available_queries ==
    {"duplicate_charges_today", "fraud_disputes", "breakdown_by_type",
     "breakdown_by_channel", "unresolved_disputes", "pending_refunds",
     "summary_stats", "high_value_disputes", "daily_summary", "count_by_category",
     "count_by_status", "list_by_category"}

(* query_engine.py: the public methods of QueryEngine *)
QueryEngine ==
    {"count_disputes_by_category", "count_by_status", "count_high_value_disputes",
     "list_disputes_by_category", "list_unresolved_disputes", "list_fraud_disputes",
     "breakdown_by_type", "breakdown_by_channel", "daily_summary",
     "duplicate_charges_today", "pending_refunds", "top_merchants_with_disputes",
     "export_filtered_data", "get_summary_stats"}

(* a parameters object, by the keys map_nlp_to_query_engine reads *)
Parameters(limit, threshold, category) ==
    Dict([limit |-> limit, threshold |-> threshold, days |-> Missing,
          category |-> category, date_filter |-> Missing, status |-> Missing])

(* the answer object the prompt asks for *)
Response(query_type, parameters, confidence, explanation) ==
    Dict([query_type |-> query_type, parameters |-> parameters,
          confidence |-> confidence, explanation |-> explanation])

(* lines 127-144; the test "field in response" raises on null and on a     *)
(* number, and                                                             *)
(* finds no field in an array or in a string without the field names;      *)
(* an array as query_type is unhashable                                    *)
validate_parsed_response(response) ==
    IF IsNone(response) \/ IsNum(response) THEN Raise("TypeError")
    ELSE IF ~IsDict(response) THEN [value |-> FALSE]
    ELSE IF \E field \in {"query_type", "parameters", "confidence", "explanation"} :
                IsMissing(response.dict[field])
    THEN [value |-> FALSE]
    ELSE IF response.dict.query_type = List THEN Raise("TypeError")
    ELSE IF ~(/\ DOMAIN response.dict.query_type = {"str"}
              /\ response.dict.query_type.str \in get_available_queries)
    THEN [value |-> FALSE]
    ELSE LET confidence == Get(response, "confidence", Num(0))
         IN  IF IsNaN(confidence) THEN [value |-> TRUE]
             ELSE IF ~IsNum(confidence) THEN [value |-> FALSE]
             ELSE [value |-> ~(confidence.num < 0 \/ confidence.num > 100)]

(* lines 147-187 *)
create_fallback_response(user_query) ==
    LET query_lower == Lower(user_query)
    IN  IF Contains(<<"d", "u", "p", "l", "i", "c", "a", "t", "e">>, query_lower)
           /\ Contains(<<"t", "o", "d", "a", "y">>, query_lower)
        THEN Response(Str("duplicate_charges_today"), Parameters(Missing, Missing, Missing),
                      Num(70), Str("Fallback: detected duplicate + today keywords"))
        ELSE IF Contains(<<"f", "r", "a", "u", "d">>, query_lower)
        THEN Response(Str("fraud_disputes"), Parameters(Num(10), Missing, Missing),
                      Num(60), Str("Fallback: detected fraud keyword"))
        ELSE IF \/ Contains(<<"b", "r", "e", "a", "k", "d", "o", "w", "n">>, query_lower)
                \/ Contains(<<"b", "r", "e", "a", "k", " ", "d", "o", "w", "n">>, query_lower)
        THEN Response(Str("breakdown_by_type"), Parameters(Missing, Missing, Missing),
                      Num(60), Str("Fallback: detected breakdown keyword"))
        ELSE IF \/ Contains(<<"s", "u", "m", "m", "a", "r", "y">>, query_lower)
                \/ Contains(<<"s", "t", "a", "t", "s">>, query_lower)
        THEN Response(Str("summary_stats"), Parameters(Missing, Missing, Missing),
                      Num(60), Str("Fallback: detected summary/stats keyword"))
        ELSE Response(Str("summary_stats"), Parameters(Missing, Missing, Missing),
                      Num(30), Str("Fallback: no clear match, defaulting to summary"))

(* lines 102-110: the text of the answer, stripped of a fence labelled     *)
(* json, is parsed; a text that is not JSON, and a fence without the json  *)
(* label, which is left in place, raise JSONDecodeError                    *)
json_loads(answer) ==
    IF answer.fence = "unlabelled" \/ DOMAIN answer.body = {"notjson"}
    THEN Raise("JSONDecodeError")
    ELSE answer.body

(* lines 76-124: every exception, of the remote call and of the           *)
(* validation, ends in the fallback                                        *)
parse_natural_query(user_query, remote) ==
    IF Raised(remote) THEN create_fallback_response(user_query)
    ELSE LET parsed_response == json_loads(remote)
             valid == validate_parsed_response(parsed_response)
         IN  IF Raised(parsed_response) THEN create_fallback_response(user_query)
             ELSE IF Raised(valid) THEN create_fallback_response(user_query)
             ELSE IF ~valid.value THEN create_fallback_response(user_query)
             ELSE parsed_response

(* lines 205-247: the table is built whole, every parameters.get of it     *)
(* evaluated, before the query type is looked up                           *)
query_mapping(parameters) ==
    [duplicate_charges_today |->
        [function |-> "duplicate_charges_today", kwargs |-> {}],
     fraud_disputes |->
        [function |-> "list_fraud_disputes",
         kwargs |-> {<<"limit", Get(parameters, "limit", Num(10))>>}],
     breakdown_by_type |-> [function |-> "breakdown_by_type", kwargs |-> {}],
     breakdown_by_channel |-> [function |-> "breakdown_by_channel", kwargs |-> {}],
     unresolved_disputes |->
        [function |-> "list_unresolved_disputes",
         kwargs |-> {<<"limit", Get(parameters, "limit", Num(20))>>}],
     pending_refunds |-> [function |-> "pending_refunds", kwargs |-> {}],
     summary_stats |-> [function |-> "get_summary_stats", kwargs |-> {}],
     high_value_disputes |->
        [function |-> "count_high_value_disputes",
         kwargs |-> {<<"threshold", Get(parameters, "threshold", Num(5000))>>}],
     daily_summary |->
        [function |-> "daily_summary",
         kwargs |-> {<<"days", Get(parameters, "days", Num(7))>>}],
     count_by_category |->
        [function |-> "count_disputes_by_category",
         kwargs |-> {<<"category", Get(parameters, "category", None)>>,
                     <<"date_filter", Get(parameters, "date_filter", None)>>}],
     count_by_status |->
        [function |-> "count_by_status",
         kwargs |-> {<<"status", Get(parameters, "status", None)>>}],
     list_by_category |->
        [function |-> "list_disputes_by_category",
         kwargs |-> {<<"category", Get(parameters, "category", Str("FRAUD"))>>,
                     <<"limit", Get(parameters, "limit", Num(10))>>}]]

(* lines 190-265: parameters.get on a parameters value that is not an      *)
(* object raises AttributeError                                            *)
map_nlp_to_query_engine(parsed_query) ==
    LET query_type == parsed_query.dict.query_type
        parameters == Get(parsed_query, "parameters", Parameters(Missing, Missing, Missing))
    IN  IF ~IsDict(parameters) THEN Raise("AttributeError")
        ELSE IF /\ DOMAIN query_type = {"str"}
                /\ query_type.str \in DOMAIN query_mapping(parameters)
        THEN LET mapping == query_mapping(parameters)[query_type.str]
             IN  [function_name |-> mapping.function,
                  kwargs |-> {kv \in mapping.kwargs : ~IsNone(kv[2])},
                  confidence |-> Get(parsed_query, "confidence", Num(50)),
                  explanation |-> Get(parsed_query, "explanation", Str(""))]
        ELSE [function_name |-> "get_summary_stats", kwargs |-> {},
              confidence |-> Num(30),
              explanation |-> [unknown_query_type |-> query_type]]

(* lines 268-297 *)
process_natural_language_query(user_query, remote, now) ==
    LET parsed_query == parse_natural_query(user_query, remote)
        mapped == map_nlp_to_query_engine(parsed_query)
    IN  IF Raised(mapped) THEN mapped
        ELSE [function_name |-> mapped.function_name,
              kwargs |-> mapped.kwargs,
              confidence |-> mapped.confidence,
              explanation |-> mapped.explanation,
              original_query |-> user_query,
              parsed_query_type |-> parsed_query.dict.query_type,
              processing_timestamp |-> now]

(* User queries: queries of test_nlp.py (lines 20-28) and queries that     *)
(* hold the keywords of two fallback branches.                             *)
(* How many duplicate charges happened today? *)
q_duplicate_today == <<"H", "o", "w", " ", "m", "a", "n", "y", " ", "d", "u", "p", "l", "i", "c", "a", "t", "e", " ", "c", "h", "a", "r", "g", "e", "s", " ", "h", "a", "p", "p", "e", "n", "e", "d", " ", "t", "o", "d", "a", "y", "?">>
(* Show me all fraud disputes *)
q_fraud == <<"S", "h", "o", "w", " ", "m", "e", " ", "a", "l", "l", " ", "f", "r", "a", "u", "d", " ", "d", "i", "s", "p", "u", "t", "e", "s">>
(* Break down disputes by type *)
q_break_down == <<"B", "r", "e", "a", "k", " ", "d", "o", "w", "n", " ", "d", "i", "s", "p", "u", "t", "e", "s", " ", "b", "y", " ", "t", "y", "p", "e">>
(* What's the summary of all disputes? *)
q_summary == <<"W", "h", "a", "t", "'", "s", " ", "t", "h", "e", " ", "s", "u", "m", "m", "a", "r", "y", " ", "o", "f", " ", "a", "l", "l", " ", "d", "i", "s", "p", "u", "t", "e", "s", "?">>
(* Show me pending refunds *)
q_pending_refunds == <<"S", "h", "o", "w", " ", "m", "e", " ", "p", "e", "n", "d", "i", "n", "g", " ", "r", "e", "f", "u", "n", "d", "s">>
(* FRAUD breakdown *)
q_fraud_breakdown == <<"F", "R", "A", "U", "D", " ", "b", "r", "e", "a", "k", "d", "o", "w", "n">>
(* Duplicate fraud TODAY *)
q_duplicate_fraud_today == <<"D", "u", "p", "l", "i", "c", "a", "t", "e", " ", "f", "r", "a", "u", "d", " ", "T", "O", "D", "A", "Y">>
(* duplicate charges by channel *)
q_duplicate_only == <<"d", "u", "p", "l", "i", "c", "a", "t", "e", " ", "c", "h", "a", "r", "g", "e", "s", " ", "b", "y", " ", "c", "h", "a", "n", "n", "e", "l">>
test_queries ==
    {q_duplicate_today, q_fraud, q_break_down, q_summary, q_pending_refunds,
     q_fraud_breakdown, q_duplicate_fraud_today, q_duplicate_only}

(* What the remote model does: generate_content raises, or it answers a    *)
(* text, bare or in a fence, that is not JSON or is JSON of any shape.     *)
AnswerObjects ==
    {Response(query_type, parameters, confidence, explanation) :
        query_type \in {Str(q) : q \in get_available_queries}
                       \cup {Str("top_merchants"), List, Missing},
        parameters \in {Parameters(limit, Missing, category) :
                            limit \in {Missing, None, Num(5)},
                            category \in {Missing, Str("REFUND_PENDING")}}
                       \cup {Parameters(Missing, Num(10000), Missing)}
                       \cup {None, Str("none"), List, Missing},
        confidence \in {Num(-10), Num(0), Num(100), Num(150), Str("0.9"), NaN,
                        Missing},
        explanation \in {Str("mapped"), Missing}}

RemoteAnswers ==
    {Raise("Exception")}
    \cup {[fence |-> fence, body |-> body] :
            fence \in {"none", "json"},
            body \in AnswerObjects \cup {[notjson |-> TRUE], None, Num(5), List,
                                         Str("fraud_disputes")}}
    \cup {[fence |-> "unlabelled", body |-> body] :
            body \in {[notjson |-> TRUE],
                      Response(Str("fraud_disputes"),
                               Parameters(Missing, Missing, Missing), Num(100),
                               Str("mapped"))}}

(* datetime.now() of line 293 *)
NlpClock == {Ts(10, 0, 0), Ts(10, 0, 30)}

InitNlp ==
    /\ transactions = <<>>
    /\ disputes = <<>>
    /\ Idle

(* process_natural_language_query(user_query) with the remote model doing  *)
(* what remote says                                                        *)
ProcessQuery(user_query, remote, now) ==
    /\ pc = "start"
    /\ call' = [op |-> "process_natural_language_query", user_query |-> user_query,
                remote |-> remote]
    /\ ret' = process_natural_language_query(user_query, remote, now)
    /\ pc' = Outcome(ret')
    /\ UNCHANGED <<transactions, disputes, ret2, classified, resolutions>>

NextNlp ==
    Start /\ \E user_query \in test_queries, remote \in RemoteAnswers, now \in NlpClock :
                ProcessQuery(user_query, remote, now)

SpecNlp == InitNlp /\ [][NextNlp]_vars

(* the function the local keyword fallback names for a query *)
KeywordFallback(user_query) ==
    LET q == Lower(user_query)
        Has(word) == Contains(word, q)
    IN  IF Has(<<"d", "u", "p", "l", "i", "c", "a", "t", "e">>) /\ Has(<<"t", "o", "d", "a", "y">>)
        THEN "duplicate_charges_today"
        ELSE IF Has(<<"f", "r", "a", "u", "d">>) THEN "list_fraud_disputes"
        ELSE IF Has(<<"b", "r", "e", "a", "k", "d", "o", "w", "n">>)
                \/ Has(<<"b", "r", "e", "a", "k", " ", "d", "o", "w", "n">>)
        THEN "breakdown_by_type"
        ELSE "get_summary_stats"

(* the remote answer is unavailable or fails validation: an exception, a   *)
(* text that is not JSON, a JSON value that is not an object, a missing    *)
(* field, a query_type outside the vocabulary, a confidence that is not a  *)
(* number or lies outside [0,1]                                            *)
AnswerRejected(remote) ==
    \/ Raised(remote)
    \/ remote.fence = "unlabelled"
    \/ ~IsDict(remote.body)
    \/ \E field \in {"query_type", "parameters", "confidence", "explanation"} :
            IsMissing(remote.body.dict[field])
    \/ remote.body.dict.query_type \notin {Str(q) : q \in get_available_queries}
    \/ /\ ~IsNaN(remote.body.dict.confidence)
       /\ \/ ~IsNum(remote.body.dict.confidence)
          \/ remote.body.dict.confidence.num < 0
          \/ remote.body.dict.confidence.num > 100

(* C28: process_natural_language_query returns, without raising, a         *)
(* function_name of the query engine for every query and every behaviour   *)
(* of the remote model, and the function of the local keyword fallback     *)
(* whenever the remote answer is unavailable or fails validation.          *)
C28_Stated_AlwaysReturnsEngineFunction ==
    Called("process_natural_language_query")
    => /\ pc = "returned"
       /\ ret.function_name \in QueryEngine
       /\ AnswerRejected(call.remote)
          => ret.function_name = KeywordFallback(call.user_query)

(* an answer that passes validation with parameters null: the mapping      *)
(* raises AttributeError out of process_natural_language_query             *)
C28_MapperRaised ==
    /\ Called("process_natural_language_query")
    /\ pc = "raised"
    /\ ret = Raise("AttributeError")
    /\ call.user_query = q_fraud
    /\ call.remote = [fence |-> "none",
                      body |-> Response(Str("fraud_disputes"), None, Num(100),
                                        Str("mapped"))]

====
